---------------------------- MODULE Spec2Model ----------------------------
(***************************************************************************)
(* A model of the daily-history harvester (scripts/fetch_daily_histories)  *)
(* of does-coin-leave-on-applause: pair resolution per venue, the fetchers' *)
(* collection of candles, the merge with the stored series and the          *)
(* read-modify-write of one record per coin.                                *)
(*                                                                          *)
(* Conventions.  A Python str that is compared or upper-cased is a tuple of *)
(* character codes (BTC == <<66, 84, 67>>); exchange names, which are only  *)
(* compared for equality, are TLA+ strings.  A dict is a function whose     *)
(* DOMAIN is its key set.  An Optional value is a tuple of length <= 1:     *)
(* <<>> is None and <<x>> is x.  A candle keeps its key and one of its five *)
(* price fields (close); open, high, low and volume travel with it in the   *)
(* same way.  A decimal string produced by normalize_number is <<"str", n>>.*)
(***************************************************************************)
EXTENDS Integers, Sequences, FiniteSets, TLC

VARIABLES
    \* ---- the harvest run (main) ----
    coins,      \* the coin list read from the coins file
    exchanges,  \* args.exchanges: the fetcher names, in order
    store,      \* output_dir: coin -> file (absent, unreadable, or a payload)
    pc,         \* "idle" between runs, "run" inside main's loop over coins
    args,       \* [full_refresh, skip_existing] of the current run
    idx,        \* 1-based position of main's loop in coins
    last,       \* what the last loop iteration did (its inputs and outputs)
    before_run, \* output_dir as it was when the current run started
    \* ---- merge_candle_lists applied to drawn inputs ----
    m_existing, m_new, m_once, m_twice, m_pc,
    \* ---- prepare / resolve_market applied to a drawn catalog ----
    r_kind, r_name, r_raw, r_asset, r_map, r_out, r_pc,
    \* ---- CCXTExchangeFetcher.fetch_candles, one request per step ----
    f_venue,    \* the rows the venue holds for the market
    f_limit,    \* limit
    f_since_ms, \* since_ms (Optional), the argument
    f_since,    \* since (Optional)
    f_candles,  \* candles: timestamp -> candle
    f_last_ts,  \* last_ts (Optional)
    f_page,     \* the venue's answer to the last request
    f_latest,   \* timestamp -> the candle of its latest row seen so far
    f_repeat,   \* the timestamps the venue has returned more than once
    f_out,      \* the returned list (Optional)
    f_pc,       \* "loop", "returned" or "raised"
    \* ---- _fetch_bybit_via_coingecko and _fetch_coingecko_with_retry ----
    g_page,     \* page
    g_assets,   \* assets
    g_attempt,  \* attempt of the request in progress
    g_backoff,  \* backoff
    g_slept,    \* the delays slept for the request in progress
    g_resp,     \* the answer to the last request
    g_pc,       \* "request", "returned" or "raised"
    \* ---- compute_series_metrics / compute_cross_exchange_spread ----
    k_in, k_out, k_pc,
    \* ---- the insights run (compute_quant_insights.main) ----
    q_coins,    \* coins
    q_hist,     \* hist_dir: coin -> payload (Optional)
    q_idx,      \* 1-based position of main's loop in coins
    q_per_coin, \* per_coin
    q_exchange_metrics, \* exchange_metrics: venue -> list of entries
    q_out,      \* what main did: its exit code, report or exception
    q_pc,       \* "loop", "aggregate" or "done"
    \* ---- CoinbaseFetcher.fetch_candles, one window per step ----
    w_since,    \* since_ms (Optional), as a day
    w_now,      \* now, as a day
    w_start,    \* start
    w_windows,  \* the windows requested so far: [start, end]
    w_candles,  \* candles: timestamp -> candle
    w_out,      \* the returned list or the exception
    w_pc,       \* "loop", "returned" or "raised"
    \* ---- successive runs of main against one venue whose history grows ----
    v_catalog,  \* the pairs the venue lists (load_markets payload)
    v_hist,     \* symbol -> the venue's daily rows of the pair, ascending
    v_file,     \* the coin's file
    v_last,     \* the last run of main: its flags, venue behaviour and results
    v_seen,     \* the runs so far: "full_refresh", "incremental", "fetch_error"
    v_pc        \* "venue" (the venue moved last), "ran" (a run ended last)

vars == <<coins, exchanges, store, pc, args, idx, last, before_run,
          m_existing, m_new, m_once, m_twice, m_pc,
          r_kind, r_name, r_raw, r_asset, r_map, r_out, r_pc,
          f_venue, f_limit, f_since_ms, f_since, f_candles, f_last_ts, f_page,
          f_latest,
          f_repeat, f_out, f_pc,
          g_page, g_assets, g_attempt, g_backoff, g_slept, g_resp, g_pc,
          k_in, k_out, k_pc,
          q_coins, q_hist, q_idx, q_per_coin, q_exchange_metrics, q_out, q_pc,
          w_since, w_now, w_start, w_windows, w_candles, w_out, w_pc,
          v_catalog, v_hist, v_file, v_last, v_seen, v_pc>>

harvestVars == <<coins, exchanges, store, pc, args, idx, last, before_run>>
mergeVars   == <<m_existing, m_new, m_once, m_twice, m_pc>>
resolveVars == <<r_kind, r_name, r_raw, r_asset, r_map, r_out, r_pc>>
fetchVars   == <<f_venue, f_limit, f_since_ms, f_since, f_candles, f_last_ts,
                 f_page, f_latest,
                 f_repeat, f_out, f_pc>>
retryVars   == <<g_page, g_assets, g_attempt, g_backoff, g_slept, g_resp, g_pc>>
metricVars  == <<k_in, k_out, k_pc>>
insightVars == <<q_coins, q_hist, q_idx, q_per_coin, q_exchange_metrics, q_out,
                 q_pc>>
windowVars  == <<w_since, w_now, w_start, w_windows, w_candles, w_out, w_pc>>
venueVars   == <<v_catalog, v_hist, v_file, v_last, v_seen, v_pc>>
clientVars  == <<fetchVars, retryVars, metricVars, insightVars, windowVars,
                 venueVars>>

----------------------------------------------------------------------------
(* Bounds of the model.                                                     *)

\* Candle timestamps are day 1 .. MaxDay, in milliseconds.
MaxDay == 2
\* Longest raw batch a venue returns to one request, and longest list handed
\* to merge_candle_lists.
MaxBatch == 2
\* Longest catalog (load_markets / products payload) handed to prepare.
MaxCatalog == 3

DAY_MS == 86400000

----------------------------------------------------------------------------
(* Strings.                                                                 *)

BTC   == <<66, 84, 67>>
btc   == <<98, 116, 99>>
ETH   == <<69, 84, 72>>
USDT  == <<85, 83, 68, 84>>
USDC  == <<85, 83, 68, 67>>
usdc  == <<117, 115, 100, 99>>
USD   == <<85, 83, 68>>
FDUSD == <<70, 68, 85, 83, 68>>
BUSD  == <<66, 85, 83, 68>>
BNB   == <<66, 78, 66>>
TRY   == <<84, 82, 89>>
KRW   == <<75, 82, 87>>
EUR   == <<69, 85, 82>>
GBP   == <<71, 66, 80>>
DAI   == <<68, 65, 73>>
Slash == <<47>>
Dash  == <<45>>

\* str.upper() on ASCII text.
Upper(s) == [i \in DOMAIN s |-> IF s[i] >= 97 /\ s[i] <= 122 THEN s[i] - 32 ELSE s[i]]

\* Python's < on str: lexicographic by code point, a proper prefix first.
StrLess(a, b) ==
    \E k \in 1..(Len(b)) :
        /\ \A j \in 1..(k - 1) : j <= Len(a) /\ a[j] = b[j]
        /\ \/ Len(a) = k - 1
           \/ k <= Len(a) /\ a[k] < b[k]

\* x or y on strings: the first if it is non-empty.
StrOr(x, y) == IF x # <<>> THEN x ELSE y


----------------------------------------------------------------------------
(* MarketRef, the quote priorities and pair resolution.                     *)

\* QUOTE_PRIORITY.get(name, ())
QUOTE_PRIORITY(name) ==
    CASE name = "binance"  -> <<USDT, FDUSD, BUSD, USDC, BTC, ETH, BNB, TRY>>
      [] name = "bybit"    -> <<USDT, USDC, BTC, ETH>>
      [] name = "okx"      -> <<USDT, USDC, BTC, ETH>>
      [] name = "upbit"    -> <<KRW>>
      [] name = "coinbase" -> <<USD, USDC, USDT, BTC, EUR, GBP>>
      [] OTHER             -> <<>>

\* build_fetchers: which class serves a name.
FetcherKind(name) == IF name = "coinbase" THEN "coinbase" ELSE "ccxt"

MarketRef(exchange, base, quote, symbol, market_id) ==
    [exchange |-> exchange, base |-> base, quote |-> quote,
     symbol |-> symbol, market_id |-> market_id]

\* A resolver that ranks a quote absent from the list before every listed one.
PriorityIndexAbsentFirst(priorities, quote) ==
    IF \E i \in DOMAIN priorities : priorities[i] = quote
    THEN (CHOOSE i \in DOMAIN priorities :
              /\ priorities[i] = quote
              /\ \A j \in 1..(i - 1) : priorities[j] # quote) - 1
    ELSE 0 - 1

\* priorities.index(quote), 0-based, or len(priorities) on ValueError.
_priority_index(priorities, quote) ==
    IF \E i \in DOMAIN priorities : priorities[i] = quote
    THEN (CHOOSE i \in DOMAIN priorities :
              /\ priorities[i] = quote
              /\ \A j \in 1..(i - 1) : priorities[j] # quote) - 1
    ELSE Len(priorities)

\* The sort key (priority index, symbol) and Python's < on such tuples.
SortKey(priorities, ref) ==
    [p |-> _priority_index(priorities, ref.quote), s |-> ref.symbol]

KeyLess(k1, k2) == k1.p < k2.p \/ (k1.p = k2.p /\ StrLess(k1.s, k2.s))

\* list.sort(key=...) is stable: an element goes after every element that
\* does not compare greater than it.
InsertRef(sorted, x, priorities) ==
    LET k == Cardinality({i \in DOMAIN sorted :
                 ~KeyLess(SortKey(priorities, x), SortKey(priorities, sorted[i]))})
    IN  SubSeq(sorted, 1, k) \o <<x>> \o SubSeq(sorted, k + 1, Len(sorted))

\* A prepare that leaves every list in catalog order.
KeepCatalogOrder(refs, priorities) == refs

RECURSIVE SortRefs(_, _)
SortRefs(refs, priorities) ==
    IF refs = <<>> THEN <<>>
    ELSE InsertRef(SortRefs(SubSeq(refs, 1, Len(refs) - 1), priorities),
                   refs[Len(refs)], priorities)

EmptyDict == [k \in {} |-> <<>>]

\* market_map.setdefault(base, []).append(ref)
MapAppend(map, base, ref) ==
    [b \in (DOMAIN map) \cup {base} |->
        IF b = base
        THEN Append(IF base \in DOMAIN map THEN map[base] ELSE <<>>, ref)
        ELSE map[b]]

\* A raw catalog entry is [live, base, quote, symbol, id]: live is CCXT's
\* "spot" flag or Coinbase's status = "online"; Coinbase entries carry
\* base_currency / quote_currency as base / quote and ignore symbol.
ccxt_ref(name, m) ==
    LET base  == Upper(m.base)
        quote == Upper(m.quote)
        dflt  == base \o Slash \o quote
    IN  MarketRef(name, base, quote, StrOr(m.symbol, dflt),
                  StrOr(m.id, StrOr(m.symbol, dflt)))

coinbase_ref(name, m) ==
    LET base  == Upper(m.base)
        quote == Upper(m.quote)
    IN  MarketRef(name, base, quote, base \o Slash \o quote, m.id)

\* The loop of prepare over the payload, in payload order.
RECURSIVE CollectRefs(_, _, _, _)
CollectRefs(kind, name, raw, map) ==
    IF raw = <<>> THEN map
    ELSE LET m    == raw[1]
             rest == SubSeq(raw, 2, Len(raw))
             skip == \/ ~m.live
                     \/ m.base = <<>>
                     \/ m.quote = <<>>
                     \/ (kind = "coinbase" /\ m.id = <<>>)
             ref  == IF kind = "coinbase" THEN coinbase_ref(name, m)
                     ELSE ccxt_ref(name, m)
         IN  IF skip THEN CollectRefs(kind, name, rest, map)
             ELSE CollectRefs(kind, name, rest, MapAppend(map, ref.base, ref))

\* prepare on a fresh fetcher: collect, then sort every base's list.
prepare(kind, name, raw) ==
    LET collected == CollectRefs(kind, name, raw, EmptyDict)
    IN  [b \in DOMAIN collected |-> SortRefs(collected[b], QUOTE_PRIORITY(name))]

\* A lookup that takes the asset as it is written.
resolve_market_as_written(map, base) ==
    IF base \notin DOMAIN map \/ map[base] = <<>> THEN <<>>
    ELSE <<map[base][1]>>

\* resolve_market after prepare: <<>> stands for the FetchError raised.
resolve_market(map, base) ==
    LET key == Upper(base)
    IN  IF key \notin DOMAIN map \/ map[key] = <<>> THEN <<>>
        ELSE <<map[key][1]>>


----------------------------------------------------------------------------
(* Candles and merge_candle_lists.                                          *)

Prices == {100, 110}
Days   == 1..MaxDay

\* normalize_number: a str is returned as it is, a number becomes its
\* decimal text.  Values are <<"num", n>> or <<"str", n>>.
normalize_number(value) == <<"str", value[2]>>

build_candle(ts_ms, close) ==
    [timestamp_ms |-> ts_ms, close |-> normalize_number(close)]

Candles == {build_candle(d * DAY_MS, <<"num", v>>) : d \in Days, v \in Prices}

TsSet(list) == {list[i].timestamp_ms : i \in DOMAIN list}

\* The entry a dict built by successive assignment holds for key ts: the
\* last one in the list.
LastWithTs(list, ts) ==
    list[CHOOSE i \in DOMAIN list :
            /\ list[i].timestamp_ms = ts
            /\ \A j \in DOMAIN list : list[j].timestamp_ms = ts => j <= i]

\* sorted(keys): ascending sequence of a set of integers.
RECURSIVE SortedKeys(_)
SortedKeys(S) ==
    IF S = {} THEN <<>>
    ELSE LET m == CHOOSE x \in S : \A y \in S : x <= y
         IN  <<m>> \o SortedKeys(S \ {m})

\* sorted(list, key=timestamp_ms): stable, so equal timestamps keep their order.
InsertByTs(sorted, x) ==
    LET k == Cardinality({i \in DOMAIN sorted :
                              sorted[i].timestamp_ms <= x.timestamp_ms})
    IN  SubSeq(sorted, 1, k) \o <<x>> \o SubSeq(sorted, k + 1, Len(sorted))

RECURSIVE SortByTs(_)
SortByTs(list) ==
    IF list = <<>> THEN <<>>
    ELSE InsertByTs(SortByTs(SubSeq(list, 1, Len(list) - 1)), list[Len(list)])

\* A merge that appends the new batch to the stored list and sorts.
MergeByConcat(existing, new) ==
    SortByTs((IF existing = <<>> THEN <<>> ELSE existing[1]) \o new)

\* A merge in which the stored candle wins a timestamp collision.
MergeExistingWins(existing, new) ==
    IF existing = <<>> \/ existing[1] = <<>> THEN SortByTs(new)
    ELSE LET old  == existing[1]
             keys == TsSet(old) \cup TsSet(new)
             ord  == SortedKeys(keys)
         IN  [i \in DOMAIN ord |->
                 IF ord[i] \in TsSet(old) THEN LastWithTs(old, ord[i])
                 ELSE LastWithTs(new, ord[i])]

\* merge_candle_lists(existing, new); existing is Optional.
merge_candle_lists(existing, new) ==
    IF existing = <<>> \/ existing[1] = <<>> THEN SortByTs(new)
    ELSE LET old  == existing[1]
             keys == TsSet(old) \cup TsSet(new)
             ord  == SortedKeys(keys)
         IN  [i \in DOMAIN ord |->
                 IF ord[i] \in TsSet(new) THEN LastWithTs(new, ord[i])
                 ELSE LastWithTs(old, ord[i])]


----------------------------------------------------------------------------
(* The fetchers' collection of candles from what the venue returns.  A page *)
(* is the venue's answer to one request: [err, batch], err for the error    *)
(* the client library raises (CCXTError, or fetch_json's FetchError).  A    *)
(* result is Optional: <<>> is the FetchError raised, <<list>> the return.  *)

CCXT_LIMIT_OVERRIDE(ccxt_id) ==
    CASE ccxt_id = "binance" -> 1000
      [] ccxt_id = "bybit"   -> 1000
      [] ccxt_id = "okx"     -> 100
      [] ccxt_id = "upbit"   -> 200
      [] OTHER               -> 1000

\* dict assignment d[k] = v
DictPut(d, k, v) == [x \in (DOMAIN d) \cup {k} |-> IF x = k THEN v ELSE d[x]]

\* [d[k] for k in sorted(d)]
OrderedValues(d) == LET ord == SortedKeys(DOMAIN d) IN [i \in DOMAIN ord |-> d[ord[i]]]

\* The for-loop over one CCXT batch: st = [candles, last_ts, new_points].
RECURSIVE ccxt_batch(_, _)
ccxt_batch(batch, st) ==
    IF batch = <<>> THEN st
    ELSE LET entry == batch[1]
             rest  == SubSeq(batch, 2, Len(batch))
             ts    == entry.ts
         IN  IF st.last_ts # <<>> /\ ts <= st.last_ts[1]
             THEN ccxt_batch(rest, st)
             ELSE ccxt_batch(rest,
                     [candles    |-> DictPut(st.candles, ts, build_candle(ts, entry.close)),
                      last_ts    |-> <<ts>>,
                      new_points |-> st.new_points + 1])

\* A cursor loop that goes on after every full page.
BreaksOnShortPageOnly(batch, limit, new_points) == Len(batch) < limit

\* Line 231: the loop ends on a short page and on a page without a new
\* timestamp.
LoopBreaks(batch, limit, new_points) == Len(batch) < limit \/ new_points = 0

\* The while-loop of CCXTExchangeFetcher.fetch_candles over the venue's
\* successive pages; a venue with no further page answers with an empty one.
RECURSIVE ccxt_loop(_, _, _, _, _)
ccxt_loop(pages, i, limit, candles, last_ts) ==
    IF i > Len(pages) THEN <<OrderedValues(candles)>>
    ELSE IF pages[i].err THEN <<>>
    ELSE LET batch == pages[i].batch
             st    == ccxt_batch(batch, [candles |-> candles, last_ts |-> last_ts,
                                         new_points |-> 0])
         IN  IF batch = <<>> THEN <<OrderedValues(candles)>>
             ELSE IF LoopBreaks(batch, limit, st.new_points)
                  THEN <<OrderedValues(st.candles)>>
                  ELSE ccxt_loop(pages, i + 1, limit, st.candles, st.last_ts)

\* raise FetchError when nothing was collected
RaiseIfEmpty(res) == IF res # <<>> /\ res[1] = <<>> THEN <<>> ELSE res

ccxt_fetch_candles(ccxt_id, pages) ==
    RaiseIfEmpty(ccxt_loop(pages, 1, CCXT_LIMIT_OVERRIDE(ccxt_id), EmptyDict, <<>>))

\* The for-loop over one Coinbase batch: rows are keyed in seconds.
RECURSIVE coinbase_batch(_, _)
coinbase_batch(batch, candles) ==
    IF batch = <<>> THEN candles
    ELSE LET entry == batch[1]
             ts_ms == entry.ts * 1000
         IN  coinbase_batch(SubSeq(batch, 2, Len(batch)),
                            DictPut(candles, ts_ms, build_candle(ts_ms, entry.close)))

\* The while-loop of CoinbaseFetcher.fetch_candles over the answers to the
\* windows it requests (none when start >= now).
RECURSIVE coinbase_loop(_, _, _)
coinbase_loop(windows, i, candles) ==
    IF i > Len(windows) THEN <<OrderedValues(candles)>>
    ELSE IF windows[i].err THEN <<>>
    ELSE coinbase_loop(windows, i + 1, coinbase_batch(windows[i].batch, candles))

coinbase_fetch_candles(windows) ==
    RaiseIfEmpty(coinbase_loop(windows, 1, EmptyDict))

\* What a venue can return: rows of the modelled days and prices, in any
\* order and with repeats.  Coinbase quotes one price, which keeps the
\* two-venue runs small; price changes are exercised on the CCXT venues.
CoinbasePrices == {100}
CcxtRows     == {[ts |-> d * DAY_MS, close |-> <<"num", v>>] : d \in Days, v \in Prices}
CoinbaseRows == {[ts |-> d * (DAY_MS \div 1000), close |-> <<"num", v>>] :
                    d \in Days, v \in CoinbasePrices}

BatchesOf(rows) == UNION {[1..n -> rows] : n \in 0..MaxBatch}

PagesOf(rows) ==
    {[err |-> TRUE, batch |-> <<>>]} \cup {[err |-> FALSE, batch |-> b] : b \in BatchesOf(rows)}

\* Every value fetch_candles can hand to harvest_coin.  A modelled batch is
\* shorter than every CCXT limit, so one request ends the cursor loop.
CcxtFetchOutcomes ==
    {ccxt_fetch_candles("binance", <<p>>) : p \in PagesOf(CcxtRows)}

CoinbaseFetchOutcomes ==
    {coinbase_fetch_candles(w) : w \in {<<>>} \cup {<<p>> : p \in PagesOf(CoinbaseRows)}}

FetchOutcomes(name) ==
    IF FetcherKind(name) = "coinbase" THEN CoinbaseFetchOutcomes ELSE CcxtFetchOutcomes


----------------------------------------------------------------------------
(* harvest_coin.  env[name] is what the venue does for this coin in this    *)
(* iteration: [market, fetch], market the Optional result of resolve_market *)
(* and fetch the Optional result of fetch_candles.  The loop returns the    *)
(* results dict and the calls it made on the fetchers, in order.            *)

\* dict.update / dict.get
DictUpdate(d1, d2) ==
    [k \in (DOMAIN d1) \cup (DOMAIN d2) |-> IF k \in DOMAIN d2 THEN d2[k] ELSE d1[k]]

\* (existing_exchanges or {}).get(name, {}) as an Optional sub-record
GetExchange(existing_exchanges, name) ==
    IF name \in DOMAIN existing_exchanges THEN <<existing_exchanges[name]>> ELSE <<>>

\* A since that repeats the day of the last stored candle.
SinceAtLastCandle(incremental, existing_exchange) ==
    IF incremental /\ existing_exchange # <<>> /\ existing_exchange[1].candles # <<>>
    THEN LET candles_list == existing_exchange[1].candles
         IN  <<candles_list[Len(candles_list)].timestamp_ms>>
    ELSE <<>>

\* since_ms of lines 377-381
SinceOf(incremental, existing_exchange) ==
    IF incremental /\ existing_exchange # <<>> /\ existing_exchange[1].candles # <<>>
    THEN LET candles_list == existing_exchange[1].candles
         IN  <<candles_list[Len(candles_list)].timestamp_ms + DAY_MS>>
    ELSE <<>>

SubRecord(market, merged) ==
    [market |-> market.symbol, quote |-> market.quote,
     count |-> Len(merged), candles |-> merged]

ResolveCall(name) == [exchange |-> name, op |-> "resolve_market", since |-> <<>>]
FetchCall(name, since_ms) == [exchange |-> name, op |-> "fetch_candles", since |-> since_ms]

\* A loop that stops at the first venue that fails.
BreakLoop(fetchers, i) == Len(fetchers) + 1

\* continue (lines 375, 397, 404): on to the next fetcher.
ContinueWith(fetchers, i) == i + 1

\* A handler that records the failed venue as an empty series.
OnFetchErrorBlank(incremental, existing_exchange, market) ==
    <<SubRecord(market, <<>>)>>

\* except FetchError (lines 392-396): the Optional entry put in results.
OnFetchError(incremental, existing_exchange, market) ==
    IF incremental /\ existing_exchange # <<>> THEN existing_exchange ELSE <<>>

\* A harvest that stores only what was fetched in this run.
MergedSeriesFetchedOnly(incremental, existing_exchange, candles) ==
    SortByTs(candles)

\* Lines 398-401: the series to store after a successful fetch.
MergedSeries(incremental, existing_exchange, candles) ==
    IF incremental /\ existing_exchange # <<>>
    THEN merge_candle_lists(<<existing_exchange[1].candles>>, candles)
    ELSE SortByTs(candles)

\* The for-loop of harvest_coin from fetcher i on.
RECURSIVE HarvestLoop(_, _, _, _, _, _, _)
HarvestLoop(fetchers, i, env, existing_exchanges, incremental, results, calls) ==
    IF i > Len(fetchers) THEN [results |-> results, calls |-> calls]
    ELSE
    LET name   == fetchers[i]
        market == env[name].market
        existing_exchange == GetExchange(existing_exchanges, name)
        since_ms == SinceOf(incremental, existing_exchange)
        candles  == env[name].fetch
        retained == OnFetchError(incremental, existing_exchange, market[1])
        merged   == MergedSeries(incremental, existing_exchange, candles[1])
        calls1   == Append(calls, ResolveCall(name))
        calls2   == Append(calls1, FetchCall(name, since_ms))
    IN  IF market = <<>>
        THEN HarvestLoop(fetchers, ContinueWith(fetchers, i), env, existing_exchanges,
                         incremental, results, calls1)
        ELSE IF candles = <<>>
        THEN HarvestLoop(fetchers, ContinueWith(fetchers, i), env, existing_exchanges,
                         incremental,
                         IF retained # <<>> THEN DictPut(results, name, retained[1])
                         ELSE results,
                         calls2)
        ELSE IF merged = <<>>
        THEN HarvestLoop(fetchers, ContinueWith(fetchers, i), env, existing_exchanges,
                         incremental, results, calls2)
        ELSE HarvestLoop(fetchers, i + 1, env, existing_exchanges, incremental,
                         DictPut(results, name, SubRecord(market[1], merged)), calls2)

harvest_coin(fetchers, env, existing_exchanges, incremental) ==
    HarvestLoop(fetchers, 1, env, existing_exchanges, incremental, EmptyDict, <<>>)


----------------------------------------------------------------------------
(* main: one run over the coin list, one loop iteration per coin.           *)

AbsentFile == [state |-> "absent", exchanges |-> EmptyDict]
\* a file whose text is not JSON (json.JSONDecodeError)
UnreadableFile == [state |-> "unreadable", exchanges |-> EmptyDict]
\* a file whose bytes are not UTF-8: read_text raises UnicodeDecodeError
GarbledFile == [state |-> "garbled", exchanges |-> EmptyDict]

\* a file of JSON whose sub-records hold no candles: a record that was
\* emptied by hand or written by another tool
EmptiedFile(file) ==
    [state |-> "ok",
     exchanges |-> [n \in DOMAIN file.exchanges |->
                       [file.exchanges[n] EXCEPT !.count = 0, !.candles = <<>>]]]

\* serialize_coin_payload + write_text (generated_at is not modelled)
WrittenFile(markets) == [state |-> "ok", exchanges |-> markets]

\* load_existing_coin: None when the file is missing or is not JSON
load_existing_coin(file) == IF file.state = "ok" THEN <<file>> ELSE <<>>

\* Line 500 raises: the file is read (no --full-refresh) and read_text
\* raises an exception that load_existing_coin does not catch.
LoadRaises(file, a) == ~a.full_refresh /\ file.state = "garbled"

\* A main that writes only what this run harvested.
MainIterationNoCarry(file, a, fetchers, env) ==
    LET existing_payload   == IF a.full_refresh THEN <<>> ELSE load_existing_coin(file)
        existing_exchanges == IF existing_payload = <<>> THEN EmptyDict
                              ELSE existing_payload[1].exchanges
        h == harvest_coin(fetchers, env, existing_exchanges, ~a.full_refresh)
        markets == h.results
        wrote == markets # EmptyDict
    IN  [existing_exchanges |-> existing_exchanges,
         results |-> h.results,
         calls   |-> h.calls,
         wrote   |-> wrote,
         file    |-> IF wrote THEN WrittenFile(markets) ELSE file]

\* A main that takes every run for an incremental one.
MainIterationIgnoresFullRefresh(file, a, fetchers, env) ==
    LET existing_payload   == load_existing_coin(file)
        existing_exchanges == IF existing_payload = <<>> THEN EmptyDict
                              ELSE existing_payload[1].exchanges
        h == harvest_coin(fetchers, env, existing_exchanges, TRUE)
        markets ==
            IF h.results = EmptyDict /\ existing_exchanges # EmptyDict
            THEN existing_exchanges
            ELSE IF existing_exchanges # EmptyDict
            THEN DictUpdate(existing_exchanges, h.results)
            ELSE h.results
        wrote == markets # EmptyDict
    IN  [existing_exchanges |-> existing_exchanges,
         results |-> h.results,
         calls   |-> h.calls,
         wrote   |-> wrote,
         file    |-> IF wrote THEN WrittenFile(markets) ELSE file]

\* Lines 500-520: load, harvest, carry over what is stored, write.
MainIteration(file, a, fetchers, env) ==
    LET existing_payload   == IF a.full_refresh THEN <<>> ELSE load_existing_coin(file)
        existing_exchanges == IF existing_payload = <<>> THEN EmptyDict
                              ELSE existing_payload[1].exchanges
        h == harvest_coin(fetchers, env, existing_exchanges, ~a.full_refresh)
        markets ==
            IF h.results = EmptyDict /\ existing_exchanges # EmptyDict /\ ~a.full_refresh
            THEN existing_exchanges
            ELSE IF existing_exchanges # EmptyDict /\ ~a.full_refresh
            THEN DictUpdate(existing_exchanges, h.results)
            ELSE h.results
        wrote == markets # EmptyDict
    IN  [existing_exchanges |-> existing_exchanges,
         results |-> h.results,
         calls   |-> h.calls,
         wrote   |-> wrote,
         file    |-> IF wrote THEN WrittenFile(markets) ELSE file]

\* A write that lands in every file of the output directory.
WriteEveryRecord(st, coin, file) == [c \in DOMAIN st |-> file]

\* Line 520: output_path.write_text, output_path the file of this coin
WriteRecord(st, coin, file) == [st EXCEPT ![coin] = file]

\* Line 496: the coin is skipped when its file exists.
SkipsCoin(file, a) == a.skip_existing /\ file.state # "absent" /\ ~a.full_refresh

----------------------------------------------------------------------------
(* The venues as the harvest run meets them.                                *)

RawPair(base, quote) ==
    [live |-> TRUE, base |-> base, quote |-> quote,
     symbol |-> base \o Slash \o quote, id |-> base \o Dash \o quote]

\* The catalogs a venue may serve when a run prepares its fetcher.
HarvestCatalogs(name, coin) ==
    CASE name = "binance"  -> {<<>>, <<RawPair(coin, USDC)>>,
                               <<RawPair(coin, USDC), RawPair(coin, USDT)>>}
      [] name = "coinbase" -> {<<>>, <<RawPair(coin, USD)>>}
      [] OTHER             -> {<<>>, <<RawPair(coin, USDT)>>}

ResolveOutcomes(name, coin) ==
    {resolve_market(prepare(FetcherKind(name), name, cat), coin) :
        cat \in HarvestCatalogs(name, coin)}

\* A venue's behaviour for one coin; no fetch is made when resolution fails.
Behaviours(name, coin) ==
    {[market |-> <<>>, fetch |-> <<>>]} \cup
    {[market |-> m, fetch |-> f] :
        m \in ResolveOutcomes(name, coin) \ {<<>>}, f \in FetchOutcomes(name)}

RECURSIVE EnvsFrom(_, _, _)
EnvsFrom(fetchers, i, coin) ==
    IF i > Len(fetchers) THEN {EmptyDict}
    ELSE {DictPut(e, fetchers[i], b) :
             e \in EnvsFrom(fetchers, i + 1, coin), b \in Behaviours(fetchers[i], coin)}

Envs(fetchers, coin) == EnvsFrom(fetchers, 1, coin)

\* The inputs of a run that stay fixed along a behaviour: the coins file and
\* the exchange list.
Configs ==
    {[coins |-> <<BTC>>,      exchanges |-> <<"bybit", "coinbase">>],
     [coins |-> <<BTC, ETH>>, exchanges |-> <<"coinbase">>],
     [coins |-> <<BTC>>,      exchanges |-> <<"binance">>]}

NoLast == [op |-> "none"]
NoArgs == [full_refresh |-> FALSE, skip_existing |-> FALSE]

MergeOff == /\ m_existing = <<>> /\ m_new = <<>> /\ m_once = <<>>
            /\ m_twice = <<>> /\ m_pc = "off"

ResolveOff == /\ r_kind = "" /\ r_name = "" /\ r_raw = <<>> /\ r_asset = <<>>
              /\ r_map = EmptyDict /\ r_out = <<>> /\ r_pc = "off"

HarvestOff == /\ coins = <<>> /\ exchanges = <<>> /\ store = EmptyDict
              /\ pc = "off" /\ args = NoArgs /\ idx = 0 /\ last = NoLast
              /\ before_run = EmptyDict

FetchOff == /\ f_venue = {} /\ f_limit = 0 /\ f_since_ms = <<>> /\ f_since = <<>>
            /\ f_candles = EmptyDict
            /\ f_last_ts = <<>> /\ f_page = <<>> /\ f_latest = EmptyDict
            /\ f_repeat = {} /\ f_out = <<>> /\ f_pc = "off"

RetryOff == /\ g_page = 0 /\ g_assets = {} /\ g_attempt = 0 /\ g_backoff = 0
            /\ g_slept = <<>> /\ g_resp = <<>> /\ g_pc = "off"

MetricOff == k_in = <<>> /\ k_out = <<>> /\ k_pc = "off"

InsightOff == /\ q_coins = <<>> /\ q_hist = EmptyDict /\ q_idx = 0
              /\ q_per_coin = EmptyDict /\ q_exchange_metrics = EmptyDict
              /\ q_out = <<>> /\ q_pc = "off"

WindowOff == /\ w_since = <<>> /\ w_now = 0 /\ w_start = 0 /\ w_windows = <<>>
             /\ w_candles = EmptyDict /\ w_out = <<>> /\ w_pc = "off"

VenueOff == /\ v_catalog = <<>> /\ v_hist = EmptyDict /\ v_file = AbsentFile
            /\ v_last = NoLast /\ v_seen = {} /\ v_pc = "off"

Init ==
    /\ \E cfg \in Configs :
          /\ coins = cfg.coins
          /\ exchanges = cfg.exchanges
          /\ store = [c \in {cfg.coins[i] : i \in DOMAIN cfg.coins} |-> AbsentFile]
    /\ pc = "idle"
    /\ args = NoArgs
    /\ idx = 0
    /\ last = NoLast
    /\ before_run = EmptyDict
    /\ MergeOff
    /\ ResolveOff
    /\ FetchOff /\ RetryOff /\ MetricOff /\ InsightOff /\ WindowOff /\ VenueOff

\* No run is in progress: none was started, or the last one returned, was
\* stopped or died.
NotRunning == pc \in {"idle", "stopped", "crashed"}

\* main is started with some flags; every fetcher is prepared.
StartRun ==
    /\ NotRunning
    /\ \E fr \in BOOLEAN, se \in BOOLEAN :
          args' = [full_refresh |-> fr, skip_existing |-> se]
    /\ pc' = "run"
    /\ idx' = 1
    /\ last' = NoLast
    /\ before_run' = store
    /\ UNCHANGED <<coins, exchanges, store>>
    /\ UNCHANGED <<mergeVars, resolveVars, clientVars>>

\* A loop iteration that skips the coin (--skip-existing).
SkipCoin ==
    /\ pc = "run"
    /\ idx <= Len(coins)
    /\ SkipsCoin(store[coins[idx]], args)
    /\ last' = [op |-> "skip", coin |-> coins[idx]]
    /\ idx' = idx + 1
    /\ UNCHANGED <<coins, exchanges, store, pc, args, before_run>>
    /\ UNCHANGED <<mergeVars, resolveVars, clientVars>>

\* A loop iteration that harvests the coin and writes its record.
ProcessCoin ==
    /\ pc = "run"
    /\ idx <= Len(coins)
    /\ ~SkipsCoin(store[coins[idx]], args)
    /\ ~LoadRaises(store[coins[idx]], args)
    /\ \E env \in Envs(exchanges, coins[idx]) :
          LET coin == coins[idx]
              it   == MainIteration(store[coin], args, exchanges, env)
          IN  /\ store' = IF it.wrote THEN WriteRecord(store, coin, it.file) ELSE store
              /\ last' = [op |-> "harvest", coin |-> coin,
                          full_refresh |-> args.full_refresh,
                          before |-> store[coin], env |-> env,
                          results |-> it.results, calls |-> it.calls,
                          wrote |-> it.wrote]
    /\ idx' = idx + 1
    /\ UNCHANGED <<coins, exchanges, pc, args, before_run>>
    /\ UNCHANGED <<mergeVars, resolveVars, clientVars>>

\* A loop iteration in which load_existing_coin raises: nothing in main
\* catches the exception and the run dies before the coin is harvested.
CrashOnLoad ==
    /\ pc = "run"
    /\ idx <= Len(coins)
    /\ ~SkipsCoin(store[coins[idx]], args)
    /\ LoadRaises(store[coins[idx]], args)
    /\ pc' = "crashed"
    /\ last' = NoLast
    /\ UNCHANGED <<coins, exchanges, store, args, idx, before_run>>
    /\ UNCHANGED <<mergeVars, resolveVars, clientVars>>

\* main returns after the last coin.
EndRun ==
    /\ pc = "run"
    /\ idx > Len(coins)
    /\ pc' = "idle"
    /\ args' = NoArgs
    /\ idx' = 0
    /\ last' = NoLast
    /\ before_run' = EmptyDict
    /\ UNCHANGED <<coins, exchanges, store>>
    /\ UNCHANGED <<mergeVars, resolveVars, clientVars>>

\* The run is stopped (interrupted) between two loop iterations.
StopRun ==
    /\ pc = "run"
    /\ idx <= Len(coins)
    /\ pc' = "stopped"
    /\ last' = NoLast
    /\ UNCHANGED <<coins, exchanges, store, args, idx, before_run>>
    /\ UNCHANGED <<mergeVars, resolveVars, clientVars>>

\* Between runs a stored file may be changed from outside: its text no
\* longer parses as JSON, its bytes are no longer UTF-8, or its sub-records
\* have lost their candles.
DamageFile ==
    /\ NotRunning
    /\ \E c \in DOMAIN store :
          \E damaged \in {UnreadableFile, GarbledFile, EmptiedFile(store[c])} :
              /\ store[c].state = "ok"
              /\ store[c] # damaged
              /\ store' = [store EXCEPT ![c] = damaged]
    /\ pc' = "idle"
    /\ args' = NoArgs
    /\ idx' = 0
    /\ last' = NoLast
    /\ before_run' = EmptyDict
    /\ UNCHANGED <<coins, exchanges>>
    /\ UNCHANGED <<mergeVars, resolveVars, clientVars>>

Next == StartRun \/ SkipCoin \/ ProcessCoin \/ CrashOnLoad \/ EndRun \/ StopRun
            \/ DamageFile

Spec == Init /\ [][Next]_vars


----------------------------------------------------------------------------
(* merge_candle_lists on drawn inputs: any stored list (or None) and any    *)
(* new batch, unsorted lists and repeated timestamps included.              *)

CandleLists == UNION {[1..n -> Candles] : n \in 0..MaxBatch}

MergeInit ==
    /\ m_existing \in {<<>>} \cup {<<l>> : l \in CandleLists}
    /\ m_new \in CandleLists
    /\ m_once = <<>>
    /\ m_twice = <<>>
    /\ m_pc = "in"
    /\ HarvestOff
    /\ ResolveOff
    /\ FetchOff /\ RetryOff /\ MetricOff /\ InsightOff /\ WindowOff /\ VenueOff

\* merged = merge_candle_lists(existing, new)
MergeOnce ==
    /\ m_pc = "in"
    /\ m_once' = merge_candle_lists(m_existing, m_new)
    /\ m_pc' = "once"
    /\ UNCHANGED <<m_existing, m_new, m_twice>>
    /\ UNCHANGED <<harvestVars, resolveVars, clientVars>>

\* merge_candle_lists(merged, new): the same batch merged again
MergeAgain ==
    /\ m_pc = "once"
    /\ m_twice' = merge_candle_lists(<<m_once>>, m_new)
    /\ m_pc' = "twice"
    /\ UNCHANGED <<m_existing, m_new, m_once>>
    /\ UNCHANGED <<harvestVars, resolveVars, clientVars>>

MergeNext == MergeOnce \/ MergeAgain

SpecMerge == MergeInit /\ [][MergeNext]_vars

\* The harvest run together with the merge on drawn inputs.
SpecHarvestMerge == (Init \/ MergeInit) /\ [][Next \/ MergeNext]_vars

----------------------------------------------------------------------------
(* prepare and resolve_market on a drawn catalog.                           *)

RawMarkets ==
    {RawPair(BTC, USDT),
     RawPair(BTC, USDC),
     RawPair(BTC, EUR),
     RawPair(ETH, USDT),
     [live |-> TRUE,  base |-> btc, quote |-> DAI,   symbol |-> <<>>, id |-> <<>>],
     [live |-> TRUE,  base |-> BTC, quote |-> GBP,
      symbol |-> <<65>> \o BTC \o Slash \o GBP, id |-> BTC \o Dash \o GBP],
     [live |-> FALSE, base |-> BTC, quote |-> USD,
      symbol |-> BTC \o Slash \o USD, id |-> BTC \o Dash \o USD],
     [live |-> TRUE,  base |-> BTC, quote |-> <<>>, symbol |-> BTC, id |-> BTC]}

RawCatalogs == UNION {[1..n -> RawMarkets] : n \in 0..MaxCatalog}

Assets == {BTC, btc, ETH, DAI}

ResolveInit ==
    /\ r_name \in {"bybit", "coinbase"}
    /\ r_kind = FetcherKind(r_name)
    /\ r_raw \in RawCatalogs
    /\ r_asset \in Assets
    /\ r_map = EmptyDict
    /\ r_out = <<>>
    /\ r_pc = "new"
    /\ HarvestOff
    /\ MergeOff
    /\ FetchOff /\ RetryOff /\ MetricOff /\ InsightOff /\ WindowOff /\ VenueOff

\* fetcher.prepare() as main calls it before the loop over coins
Prepare ==
    /\ r_pc = "new"
    /\ r_map' = prepare(r_kind, r_name, r_raw)
    /\ r_pc' = "prepared"
    /\ UNCHANGED <<r_kind, r_name, r_raw, r_asset, r_out>>
    /\ UNCHANGED <<harvestVars, mergeVars, clientVars>>

\* fetcher.resolve_market(asset); it calls prepare itself, which does
\* nothing on a prepared fetcher and, for Coinbase with an empty map, loads
\* the products again.
ResolveMarket ==
    /\ r_pc \in {"new", "prepared"}
    /\ LET map == IF r_pc = "new" \/ (r_kind = "coinbase" /\ r_map = EmptyDict)
                  THEN prepare(r_kind, r_name, r_raw) ELSE r_map
       IN  /\ r_map' = map
           /\ r_out' = resolve_market(map, r_asset)
    /\ r_pc' = "resolved"
    /\ UNCHANGED <<r_kind, r_name, r_raw, r_asset>>
    /\ UNCHANGED <<harvestVars, mergeVars, clientVars>>

ResolveNext == Prepare \/ ResolveMarket

SpecResolve == ResolveInit /\ [][ResolveNext]_vars


----------------------------------------------------------------------------
(* CCXTExchangeFetcher.fetch_candles, one request of the cursor loop per    *)
(* step, against a venue that answers each request with an error or with   *)
(* any page of at most limit rows.  The limit is drawn small so that full   *)
(* pages and further requests occur.                                        *)

\* What the client raises: ccxt.RateLimitExceeded and ccxt.NetworkError are
\* both CCXTError.
FetchErrors == {"rate_limit", "network"}

\* The answers to a request for at most limit rows of a venue that holds
\* the given rows.
FetchPages(limit, rows) ==
    {[err |-> e, batch |-> <<>>] : e \in FetchErrors} \cup
    {[err |-> "none", batch |-> b] : b \in {x \in BatchesOf(rows) : Len(x) <= limit}}

\* A venue with one close per day: the loop of fetch_candles reads only the
\* length of a page and its timestamps.
OneCloseRows == {r \in CcxtRows : \A v \in Prices : r.close[2] <= v}

\* timestamp -> candle of the latest row with that timestamp
RECURSIVE SeeRows(_, _)
SeeRows(batch, latest) ==
    IF batch = <<>> THEN latest
    ELSE SeeRows(SubSeq(batch, 2, Len(batch)),
                 DictPut(latest, batch[1].ts, build_candle(batch[1].ts, batch[1].close)))

\* the timestamps of the batch seen before it or twice in it
Repeated(batch, seen) ==
    {batch[i].ts : i \in {j \in DOMAIN batch :
        batch[j].ts \in seen \/ \E h \in DOMAIN batch : h # j /\ batch[h].ts = batch[j].ts}}

FetchStart(venues, sinces) ==
    /\ f_venue \in venues
    /\ f_limit \in 1..MaxBatch
    /\ f_since_ms \in sinces
    /\ f_since = f_since_ms
    /\ f_candles = EmptyDict
    /\ f_last_ts = <<>>
    /\ f_page = <<>>
    /\ f_latest = EmptyDict
    /\ f_repeat = {}
    /\ f_out = <<>>
    /\ f_pc = "loop"
    /\ HarvestOff /\ MergeOff /\ ResolveOff
    /\ RetryOff /\ MetricOff /\ InsightOff /\ WindowOff /\ VenueOff

FetchInit == FetchStart({CcxtRows}, {<<>>})

\* Venues that hold some of the days.
CursorInit == FetchStart(SUBSET OneCloseRows \ {{}}, {<<>>})

\* since = batch[-1][0] + duration_ms, with timeframe "1d"
AdvanceToLast(batch) == batch[Len(batch)].ts
AdvanceSince(batch) == batch[Len(batch)].ts + DAY_MS

\* One pass of the while-loop (lines 211-233) on the answer page and, when
\* it leaves the loop, the return (lines 234-237).
Request(page) ==
    LET batch == page.batch
        st    == ccxt_batch(batch, [candles |-> f_candles, last_ts |-> f_last_ts,
                                    new_points |-> 0])
        res   == RaiseIfEmpty(<<OrderedValues(st.candles)>>)
    IN  /\ f_page' = <<page>>
        /\ f_latest' = SeeRows(batch, f_latest)
        /\ f_repeat' = f_repeat \cup Repeated(batch, DOMAIN f_latest)
        /\ IF page.err # "none"
           THEN /\ f_pc' = "raised"
                /\ UNCHANGED <<f_candles, f_last_ts, f_since, f_out>>
           ELSE /\ f_candles' = st.candles
                /\ f_last_ts' = st.last_ts
                /\ IF batch = <<>> \/ LoopBreaks(batch, f_limit, st.new_points)
                   THEN /\ f_pc' = IF res = <<>> THEN "raised" ELSE "returned"
                        /\ f_out' = res
                        /\ UNCHANGED f_since
                   ELSE /\ f_pc' = "loop"
                        /\ f_since' = <<AdvanceSince(batch)>>
                        /\ UNCHANGED f_out
        /\ UNCHANGED <<f_venue, f_limit, f_since_ms>>
        /\ UNCHANGED <<harvestVars, mergeVars, resolveVars, windowVars, venueVars,
                       retryVars, metricVars,
                       insightVars>>

\* The venue answers with an error or with any page.
RequestPage ==
    /\ f_pc = "loop"
    /\ \E page \in FetchPages(f_limit, f_venue) : Request(page)

FetchNext == RequestPage

SpecFetch == FetchInit /\ [][FetchNext]_vars

\* The loop makes its next request whenever it has not left.
SpecFetchFair == CursorInit /\ [][FetchNext]_vars /\ WF_vars(RequestPage)

\* A venue of daily candles, one per day it holds, that honours since and
\* limit: it answers a request with the earliest limit of its rows at or
\* after since (of all its rows when since is None), in ascending order.
DailyRows == {[ts |-> d * DAY_MS, close |-> <<"num", 100>>] : d \in 1..(MaxDay + 1)}

RowsFrom(rows, since) == {r \in rows : since = <<>> \/ r.ts >= since[1]}

RECURSIVE EarliestFirst(_)
EarliestFirst(rows) ==
    IF rows = {} THEN <<>>
    ELSE LET r == CHOOSE x \in rows : \A y \in rows : x.ts <= y.ts
         IN  <<r>> \o EarliestFirst(rows \ {r})

HonestPage(limit, rows, since) ==
    LET all == EarliestFirst(RowsFrom(rows, since))
    IN  [err |-> "none",
         batch |-> SubSeq(all, 1, IF Len(all) < limit THEN Len(all) ELSE limit)]

\* fetch_candles(market, since_ms) with since_ms None or a day, on or past
\* the venue's days.
HonestInit ==
    FetchStart(SUBSET DailyRows, {<<>>} \cup {<<d * DAY_MS>> : d \in 1..(MaxDay + 2)})

HonestRequest ==
    /\ f_pc = "loop"
    /\ Request(HonestPage(f_limit, f_venue, f_since))

HonestNext == HonestRequest

SpecHonest == HonestInit /\ [][HonestNext]_vars


----------------------------------------------------------------------------
(* Properties.  While pc = "run" and last.op = "harvest", last describes    *)
(* the iteration that has just ended and store[last.coin] is the file it    *)
(* left behind.                                                             *)

Harvested   == pc = "run" /\ last.op = "harvest"
Incremental == ~last.full_refresh
StoredBefore == last.before.exchanges
StoredNow    == store[last.coin].exchanges
Names        == {exchanges[i] : i \in DOMAIN exchanges}

Unresolved(name)  == last.env[name].market = <<>>
FetchFailed(name) == last.env[name].market # <<>> /\ last.env[name].fetch = <<>>
Fetched(name)     == last.env[name].market # <<>> /\ last.env[name].fetch # <<>>
HadSeries(name)   == name \in DOMAIN StoredBefore

\* Some timestamp is in both lists with different candles.
Collides(old, new) ==
    \E i \in DOMAIN old, j \in DOMAIN new :
        old[i].timestamp_ms = new[j].timestamp_ms /\ old[i] # new[j]

\* C1 as stated: whenever fetch_candles fails for a venue that has a stored
\* series, the record the run writes holds that venue's sub-record unchanged.
C1_RetainedInEveryMode ==
    (Harvested /\ last.wrote) =>
        \A name \in Names :
            (HadSeries(name) /\ FetchFailed(name)) =>
                /\ name \in DOMAIN StoredNow
                /\ StoredNow[name] = StoredBefore[name]

\* C1 amended: in an incremental run (no --full-refresh), when fetch_candles
\* fails for a venue that has a stored series, the run writes the record and
\* the venue's sub-record in it (market, quote, count, candles) is the stored
\* one.
C1_RetainedWhenIncremental ==
    (Harvested /\ Incremental) =>
        \A name \in Names :
            (HadSeries(name) /\ FetchFailed(name)) =>
                /\ last.wrote
                /\ name \in DOMAIN StoredNow
                /\ StoredNow[name] = StoredBefore[name]

\* An incremental run in which one venue with a stored series failed to
\* fetch while another venue was fetched and stored.
C1_Witness ==
    /\ Harvested /\ Incremental /\ last.wrote
    /\ \E name \in Names, other \in Names :
          /\ HadSeries(name) /\ FetchFailed(name)
          /\ StoredNow[name] = StoredBefore[name]
          /\ Fetched(other)
          /\ GetExchange(StoredNow, other) # GetExchange(StoredBefore, other)

\* A step of a run keeps every stored venue and every stored timestamp.
KeepsEverything ==
    \A c \in DOMAIN store :
        \A name \in DOMAIN store[c].exchanges :
            /\ name \in DOMAIN store'[c].exchanges
            /\ TsSet(store[c].exchanges[name].candles)
                   \subseteq TsSet(store'[c].exchanges[name].candles)

\* C2 as stated: whatever the mode flags, no step of a harvest run removes a
\* venue from a record or a timestamp from a stored series.
C2_NeverLosesInAnyMode == [][pc = "run" => KeepsEverything]_vars

\* C2 amended: no step of an incremental harvest run (no --full-refresh)
\* removes a venue from a record or a timestamp from a stored series.
C2_NeverLosesWhenIncremental ==
    [][(pc = "run" /\ ~args.full_refresh) => KeepsEverything]_vars

\* An incremental iteration that added a timestamp to a stored series.
C2_Witness ==
    /\ Harvested /\ Incremental
    /\ \E name \in Names :
          /\ HadSeries(name) /\ Fetched(name)
          /\ TsSet(StoredBefore[name].candles) # TsSet(StoredNow[name].candles)
          /\ TsSet(StoredBefore[name].candles) \subseteq TsSet(StoredNow[name].candles)

\* C3 as stated: merging the same batch a second time changes nothing,
\* merge(merge(existing, new), new) = merge(existing, new), for every stored
\* list (None and the empty list included) and every new batch.
C3_MergeIdempotent == m_pc = "twice" => m_twice = m_once

\* C4: the timestamps of merge_candle_lists(existing, new) are the union of
\* the timestamps of both inputs and a timestamp present in both carries a
\* candle of the new batch; after a successful incremental fetch the stored
\* series is this merge of the stored series and the fetched candles.
C4_MergeUnionNewWins ==
    /\ m_pc \in {"once", "twice"} =>
          LET old == IF m_existing = <<>> THEN <<>> ELSE m_existing[1]
          IN  /\ TsSet(m_once) = TsSet(old) \cup TsSet(m_new)
              /\ \A i \in DOMAIN m_once :
                    m_once[i].timestamp_ms \in TsSet(old) \cap TsSet(m_new) =>
                        /\ \E j \in DOMAIN m_new : m_new[j] = m_once[i]
                        /\ \A k \in DOMAIN m_once :
                              m_once[k].timestamp_ms = m_once[i].timestamp_ms => k = i
    /\ (Harvested /\ Incremental) =>
          \A name \in Names :
              Fetched(name) =>
                  LET old == IF HadSeries(name) THEN StoredBefore[name].candles ELSE <<>>
                      new == last.env[name].fetch[1]
                      now == StoredNow[name].candles
                  IN  /\ TsSet(now) = TsSet(old) \cup TsSet(new)
                      /\ \A i \in DOMAIN now :
                            IF now[i].timestamp_ms \in TsSet(new)
                            THEN \E j \in DOMAIN new : new[j] = now[i]
                            ELSE \E j \in DOMAIN old : old[j] = now[i]
                      /\ now = merge_candle_lists(IF HadSeries(name) THEN <<old>> ELSE <<>>, new)
                      /\ StoredNow[name].count = Len(now)

\* An incremental iteration whose fetch returned, for a stored timestamp, a
\* candle that differs from the stored one, and stored the fetched one.
C4_Witness ==
    /\ Harvested /\ Incremental
    /\ \E name \in Names :
          /\ HadSeries(name) /\ Fetched(name)
          /\ Collides(StoredBefore[name].candles, last.env[name].fetch[1])
          /\ \A i \in DOMAIN StoredNow[name].candles :
                StoredNow[name].candles[i].timestamp_ms \in TsSet(last.env[name].fetch[1])
                    => \E j \in DOMAIN last.env[name].fetch[1] :
                          last.env[name].fetch[1][j] = StoredNow[name].candles[i]

StrictlyIncreasing(list) ==
    \A i \in 1..(Len(list) - 1) : list[i].timestamp_ms < list[i + 1].timestamp_ms

\* C5: in every stored record, the candle timestamps of every venue series
\* are strictly increasing.
C5_SeriesStrictlyIncreasing ==
    \A c \in DOMAIN store :
        \A name \in DOMAIN store[c].exchanges :
            StrictlyIncreasing(store[c].exchanges[name].candles)

\* A series of two candles or more stored by a merge into a non-empty stored
\* series, the fetch having returned a stored timestamp again.
C5_Witness ==
    /\ Harvested /\ Incremental
    /\ \E name \in Names :
          /\ HadSeries(name) /\ Fetched(name)
          /\ TsSet(StoredBefore[name].candles) \cap TsSet(last.env[name].fetch[1]) # {}
          /\ Len(StoredNow[name].candles) >= 2
          /\ Len(StoredNow[name].candles) > Len(StoredBefore[name].candles)

\* C6: when no venue yields a usable result for a coin whose record exists,
\* the record still exists after the run with the same venue sub-records.
C6_RecordPreserved ==
    (/\ Harvested
     /\ last.before.state = "ok"
     /\ \A name \in Names : Unresolved(name) \/ FetchFailed(name)) =>
        /\ store[last.coin].state = "ok"
        /\ StoredNow = StoredBefore

\* An incremental iteration over a two-venue record in which one venue was
\* unresolvable and the other failed to fetch.
C6_Witness ==
    /\ Harvested /\ Incremental
    /\ last.before.state = "ok"
    /\ Cardinality(DOMAIN StoredBefore) = 2
    /\ \E a \in Names, b \in Names : Unresolved(a) /\ FetchFailed(b)
    /\ StoredNow = StoredBefore


HasCall(calls, call) == \E k \in DOMAIN calls : calls[k] = call
FetchCalls(calls, name) ==
    {k \in DOMAIN calls : calls[k].exchange = name /\ calls[k].op = "fetch_candles"}

\* C7: when resolve_market fails for a coin on a venue, harvest_coin makes no
\* fetch on that venue, puts no entry for it in its results, and still
\* resolves (and, where that succeeds, fetches) every later venue of the list.
C7_SkipsOnlyThatVenue ==
    Harvested =>
        \A i \in DOMAIN exchanges :
            Unresolved(exchanges[i]) =>
                /\ FetchCalls(last.calls, exchanges[i]) = {}
                /\ exchanges[i] \notin DOMAIN last.results
                /\ \A j \in (i + 1)..Len(exchanges) :
                      /\ HasCall(last.calls, ResolveCall(exchanges[j]))
                      /\ ~Unresolved(exchanges[j]) =>
                            FetchCalls(last.calls, exchanges[j]) # {}

\* The first venue of two was unresolvable and the second was fetched and
\* entered in the results.
C7_Witness ==
    /\ Harvested
    /\ Len(exchanges) = 2
    /\ Unresolved(exchanges[1])
    /\ Fetched(exchanges[2])
    /\ exchanges[2] \in DOMAIN last.results
    /\ exchanges[1] \notin DOMAIN last.results

\* existing_exchanges as main loaded it for the last iteration
LoadedExchanges ==
    IF last.full_refresh \/ last.before.state # "ok" THEN EmptyDict ELSE StoredBefore

\* C8: every venue of the list is attempted, and the harvest of the same coin
\* with any other behaviour of one venue (resolution failure, fetch failure,
\* or success with any data) yields the same entry, and the same calls, for
\* every other venue.
C8_VenuesIndependent ==
    Harvested =>
        /\ \A name \in Names : HasCall(last.calls, ResolveCall(name))
        /\ \A a \in Names :
              \A alt \in Behaviours(a, last.coin) :
                  LET other == harvest_coin(exchanges, [last.env EXCEPT ![a] = alt],
                                            LoadedExchanges, Incremental)
                  IN  \A b \in Names \ {a} :
                          /\ GetExchange(other.results, b) = GetExchange(last.results, b)
                          /\ {other.calls[k] : k \in {n \in DOMAIN other.calls :
                                                         other.calls[n].exchange = b}}
                               = {last.calls[k] : k \in {n \in DOMAIN last.calls :
                                                         last.calls[n].exchange = b}}

\* The first venue of two failed to fetch and the second was fetched and
\* entered in the results.
C8_Witness ==
    /\ Harvested
    /\ Len(exchanges) = 2
    /\ FetchFailed(exchanges[1])
    /\ Fetched(exchanges[2])
    /\ exchanges[2] \in DOMAIN last.results

\* The pairs prepare keeps for the asset: those of the payload that are live
\* and complete and whose base is the asset, letter case aside.
Kept(m) ==
    /\ m.live /\ m.base # <<>> /\ m.quote # <<>>
    /\ (r_kind = "coinbase" => m.id # <<>>)

Candidates ==
    {IF r_kind = "coinbase" THEN coinbase_ref(r_name, r_raw[i]) ELSE ccxt_ref(r_name, r_raw[i]) :
        i \in {k \in DOMAIN r_raw : Kept(r_raw[k]) /\ Upper(r_raw[k].base) = Upper(r_asset)}}

Listed(prio, q) == \E i \in DOMAIN prio : prio[i] = q
\* q1 ranks strictly before q2: it is listed, and q2 is listed later or not at all.
RanksBefore(prio, q1, q2) ==
    /\ Listed(prio, q1)
    /\ \/ ~Listed(prio, q2)
       \/ \E i \in DOMAIN prio, j \in DOMAIN prio : prio[i] = q1 /\ prio[j] = q2 /\ i < j
SameRank(prio, q1, q2) == ~RanksBefore(prio, q1, q2) /\ ~RanksBefore(prio, q2, q1)

\* C9: resolve_market returns one of the venue's pairs for the asset; no
\* other such pair has a quote earlier in the venue's priority list (a quote
\* absent from the list ranking after all listed ones) and none of equal rank
\* has a smaller symbol; with priority [USDT, USDC] and the pairs BTC/USDC and
\* BTC/USDT it returns BTC/USDT.
C9_BestPair ==
    /\ (r_pc = "resolved" /\ r_out # <<>>) =>
          LET r    == r_out[1]
              prio == QUOTE_PRIORITY(r_name)
          IN  /\ r \in Candidates
              /\ \A c \in Candidates :
                    /\ ~RanksBefore(prio, c.quote, r.quote)
                    /\ SameRank(prio, c.quote, r.quote) => ~StrLess(c.symbol, r.symbol)
              /\ (r_name = "bybit"
                    /\ {c.symbol : c \in Candidates} = {BTC \o Slash \o USDC, BTC \o Slash \o USDT})
                    => r.symbol = BTC \o Slash \o USDT
    /\ SortRefs(<<ccxt_ref("venue", RawPair(BTC, USDC)), ccxt_ref("venue", RawPair(BTC, USDT))>>,
                <<USDT, USDC>>)[1].symbol = BTC \o Slash \o USDT

\* Bybit lists BTC/USDC before BTC/USDT and nothing else for BTC, and
\* resolve_market(BTC) returned BTC/USDT.
C9_Witness ==
    /\ r_pc = "resolved"
    /\ r_name = "bybit"
    /\ r_asset = BTC
    /\ Len(r_raw) >= 2
    /\ r_raw[1] = RawPair(BTC, USDC)
    /\ {c.symbol : c \in Candidates} = {BTC \o Slash \o USDC, BTC \o Slash \o USDT}
    /\ r_out # <<>>
    /\ r_out[1].symbol = BTC \o Slash \o USDT

\* C10: resolve_market raises exactly when the venue's catalog holds no pair
\* whose base is the asset, letter case aside; otherwise the pair it returns
\* has the asset as its base.
C10_FailsIffNoPair ==
    r_pc = "resolved" =>
        /\ r_out = <<>> <=> Candidates = {}
        /\ r_out # <<>> => r_out[1].base = Upper(r_asset)

\* The asset was given in lower case and a pair listed in upper case was
\* returned.
C10_Witness ==
    /\ r_pc = "resolved"
    /\ r_asset = btc
    /\ r_out # <<>>
    /\ r_out[1].base = BTC
    /\ \E i \in DOMAIN r_raw : r_raw[i].base = BTC


----------------------------------------------------------------------------
\* The candles of the returned list that carry the timestamp.
ReturnedAt(ts) == {i \in DOMAIN f_out[1] : f_out[1][i].timestamp_ms = ts}

\* C11 as stated: when the venue returns a timestamp more than once during
\* one fetch_candles of a CCXT venue, in one page or across pages, the
\* returned list holds the timestamp once and with the candle of the
\* latest row seen for it.
C11_LaterSeenWins ==
    f_pc = "returned" =>
        \A ts \in f_repeat :
            /\ Cardinality(ReturnedAt(ts)) = 1
            /\ \A i \in ReturnedAt(ts) : f_out[1][i] = f_latest[ts]

\* The page just received contributes a timestamp beyond the last one seen
\* before it.
BringsNewTimestamp ==
    \E i \in DOMAIN f_page'[1].batch :
        f_last_ts = <<>> \/ f_page'[1].batch[i].ts > f_last_ts[1]

\* C12: the cursor loop of fetch_candles leaves as soon as a page is empty,
\* shorter than the limit or without a timestamp beyond the last one seen
\* (and goes on otherwise), and every fetch ends: no sequence of pages,
\* repeated ones included, keeps it requesting forever.
C12_PaginationTerminates ==
    /\ [][(f_pc = "loop" /\ f_page'[1].err = "none") =>
            ((f_pc' # "loop") <=>
                \/ f_page'[1].batch = <<>>
                \/ Len(f_page'[1].batch) < f_limit
                \/ ~BringsNewTimestamp)]_vars
    /\ <>(f_pc # "loop")

\* A fetch that went on after a full page and ended, with what it had
\* collected, on a full page that repeated timestamps already seen.
C12_Witness ==
    /\ f_pc = "returned"
    /\ f_since # <<>>
    /\ Len(f_page[1].batch) >= f_limit
    /\ \A i \in DOMAIN f_page[1].batch : f_page[1].batch[i].ts <= f_last_ts[1]

----------------------------------------------------------------------------
\* A stored file that cannot be decoded: not JSON, or not UTF-8.
Undecodable(file) == file.state \in {"unreadable", "garbled"}

\* C13 as stated: a stored record that cannot be decoded never makes the
\* run fail, and the iteration that meets one fetches every venue it
\* fetches with since = None, as for an absent record.
C13_UndecodableIsAbsent ==
    /\ pc # "crashed"
    /\ (Harvested /\ Undecodable(last.before)) =>
          \A k \in DOMAIN last.calls :
              last.calls[k].op = "fetch_candles" => last.calls[k].since = <<>>

----------------------------------------------------------------------------
(* compute_quant_insights.  A float is modelled by the exact rational       *)
(* [n, d] (d > 0, lowest terms): rounding is not modelled.  The volatility  *)
(* is kept as the list of ratios whose logarithms pstdev is taken of.       *)

Abs(n) == IF n < 0 THEN 0 - n ELSE n

RECURSIVE Gcd(_, _)
Gcd(a, b) == IF b = 0 THEN a ELSE Gcd(b, a % b)

Rat(n, d) ==
    LET g == Gcd(Abs(n), Abs(d))
        s == IF d < 0 THEN 0 - 1 ELSE 1
    IN  [n |-> (s * n) \div g, d |-> (s * d) \div g]

RatInt(n)     == [n |-> n, d |-> 1]
RatAdd(a, b)  == Rat(a.n * b.d + b.n * a.d, a.d * b.d)
RatSub(a, b)  == Rat(a.n * b.d - b.n * a.d, a.d * b.d)
RatDiv(a, b)  == Rat(a.n * b.d, a.d * b.n)
RatLess(a, b) == a.n * b.d < b.n * a.d
RatLeq(a, b)  == a.n * b.d <= b.n * a.d
RatMax(a, b)  == IF RatLess(a, b) THEN b ELSE a
RatMin(a, b)  == IF RatLess(b, a) THEN b ELSE a
RatZero       == RatInt(0)

\* float(candle["close"]) of a stored decimal text
Float(close) == RatInt(close[2])

\* sorted(data) of a list of floats
InsertRat(sorted, x) ==
    LET k == Cardinality({i \in DOMAIN sorted : RatLeq(sorted[i], x)})
    IN  SubSeq(sorted, 1, k) \o <<x>> \o SubSeq(sorted, k + 1, Len(sorted))

RECURSIVE SortRats(_)
SortRats(data) ==
    IF data = <<>> THEN <<>>
    ELSE InsertRat(SortRats(SubSeq(data, 1, Len(data) - 1)), data[Len(data)])

\* statistics.median: Optional, <<>> for the StatisticsError on empty data
median(data) ==
    LET s == SortRats(data)
        n == Len(s)
    IN  IF n = 0 THEN <<>>
        ELSE IF n % 2 = 1 THEN <<s[(n + 1) \div 2]>>
        ELSE <<RatDiv(RatAdd(s[n \div 2], s[n \div 2 + 1]), RatInt(2))>>

\* A running maximum that never moves from the first close.
RunningMaxStuck(max_price, price) == max_price

\* Line 56: max_price = max(max_price, price)
RunningMax(max_price, price) == RatMax(max_price, price)

\* Lines 55-59: the loop over closes, from position i on.
RECURSIVE DrawdownLoop(_, _, _, _)
DrawdownLoop(closes, i, max_price, max_drawdown) ==
    IF i > Len(closes) THEN max_drawdown
    ELSE LET mp == RunningMax(max_price, closes[i])
             dd == IF RatLess(RatZero, mp)
                   THEN RatMin(max_drawdown, RatSub(RatDiv(closes[i], mp), RatInt(1)))
                   ELSE max_drawdown
         IN  DrawdownLoop(closes, i + 1, mp, dd)

\* Lines 48-50: the ratios math.log is applied to.
LogRatios(closes) ==
    LET idxs == SortedKeys({i \in 2..Len(closes) : RatLess(RatZero, closes[i - 1])})
    IN  [j \in DOMAIN idxs |-> RatDiv(closes[idxs[j]], closes[idxs[j] - 1])]

\* compute_series_metrics: [kind |-> "none"] for None, [kind |-> "raise"]
\* for the ValueError of math.log on a ratio <= 0, else the metrics.
compute_series_metrics(candles) ==
    IF Len(candles) < 2 THEN [kind |-> "none"]
    ELSE LET closes == [i \in DOMAIN candles |-> Float(candles[i].close)]
             first_close == closes[1]
             last_close  == closes[Len(closes)]
             ratios == LogRatios(closes)
         IN  IF RatLeq(first_close, RatZero) \/ RatLeq(last_close, RatZero)
             THEN [kind |-> "none"]
             ELSE IF \E j \in DOMAIN ratios : RatLeq(ratios[j], RatZero)
             THEN [kind |-> "raise", error |-> "ValueError"]
             ELSE [kind         |-> "ok",
                   days         |-> Len(candles),
                   cum_return   |-> RatSub(RatDiv(last_close, first_close), RatInt(1)),
                   max_drawdown |-> DrawdownLoop(closes, 1, closes[1], RatZero),
                   volatility   |-> [pstdev_of_log |-> ratios]]

\* A midpoint taken at the highest close.
MidpointAtMax(max_close, min_close) == RatInt(max_close)

\* Line 88: mid = (max_close + min_close) / 2 if (max_close + min_close) else 0
Midpoint(max_close, min_close) ==
    IF max_close + min_close # 0 THEN Rat(max_close + min_close, 2) ELSE RatZero

\* Lines 75-79: per_timestamp, as the set of (venue, position) of the
\* candles that carry the timestamp.
PerTimestamp(exchange_data, ts) ==
    {<<name, i>> \in UNION {{name} \X DOMAIN exchange_data[name].candles :
                                name \in DOMAIN exchange_data} :
        exchange_data[name].candles[i].timestamp_ms = ts}

AllTimestamps(exchange_data) ==
    UNION {TsSet(exchange_data[name].candles) : name \in DOMAIN exchange_data}

ClosesAt(exchange_data, ts) ==
    {exchange_data[p[1]].candles[p[2]].close[2] : p \in PerTimestamp(exchange_data, ts)}

MaxOf(S) == CHOOSE x \in S : \A y \in S : y <= x
MinOf(S) == CHOOSE x \in S : \A y \in S : x <= y

\* compute_cross_exchange_spread: [rel, abs], both Optional.
compute_cross_exchange_spread(exchange_data) ==
    LET multi == SortedKeys({ts \in AllTimestamps(exchange_data) :
                                Cardinality(PerTimestamp(exchange_data, ts)) >= 2})
        max_close(ts) == MaxOf(ClosesAt(exchange_data, ts))
        min_close(ts) == MinOf(ClosesAt(exchange_data, ts))
        mid(ts) == Midpoint(max_close(ts), min_close(ts))
        withmid == SortedKeys({multi[j] : j \in {h \in DOMAIN multi :
                                                    RatLess(RatZero, mid(multi[h]))}})
        spreads == [j \in DOMAIN withmid |->
                       RatDiv(RatInt(max_close(withmid[j]) - min_close(withmid[j])),
                              mid(withmid[j]))]
        absolute_spreads == [j \in DOMAIN multi |->
                                RatInt(max_close(multi[j]) - min_close(multi[j]))]
    IN  IF spreads = <<>> THEN [rel |-> <<>>, abs |-> <<>>]
        ELSE [rel |-> median(spreads), abs |-> median(absolute_spreads)]

----------------------------------------------------------------------------
(* compute_series_metrics and compute_cross_exchange_spread on drawn input. *)

\* Longest series handed to compute_series_metrics.
MaxCandles == 3

SeriesCloses == {0 - 50, 0, 50, 100, 150}
SpreadCloses == {0 - 100, 0, 100, 110}

\* A stored series: one candle per day from day 1 on.
SeriesOf(closes) == [i \in DOMAIN closes |-> build_candle(i * DAY_MS, <<"num", closes[i]>>)]

\* The series of up to n candles with closes of a set.
SeriesUpTo(closes, n) == {SeriesOf(c) : c \in UNION {[1..k -> closes] : k \in 0..n}}

\* A stored series with gaps: a candle on each day of a set of days.
GappedSeries(closes_of) ==
    LET ord == SortedKeys(DOMAIN closes_of)
    IN  [i \in DOMAIN ord |-> build_candle(ord[i] * DAY_MS, <<"num", closes_of[ord[i]]>>)]

GappedInputs(closes) ==
    {GappedSeries(f) : f \in UNION {[D -> closes] : D \in SUBSET Days}}

VenueData(candles) == [candles |-> candles]

SpreadInputs(closes) ==
    {[name \in {"binance", "okx"} \cup third.names |->
        IF name = "binance" THEN VenueData(a)
        ELSE IF name = "okx" THEN VenueData(b) ELSE VenueData(third.candles)] :
        a \in GappedInputs(closes), b \in GappedInputs(closes),
        third \in {[names |-> {}, candles |-> <<>>]} \cup
                  {[names |-> {"bybit"}, candles |-> SeriesOf(<<v>>)] : v \in Prices}}

MetricInit ==
    /\ \/ k_pc = "series" /\ k_in \in SeriesUpTo(SeriesCloses, MaxCandles)
       \/ k_pc = "spread" /\ k_in \in SpreadInputs(SpreadCloses)
    /\ k_out = <<>>
    /\ HarvestOff /\ MergeOff /\ ResolveOff
    /\ FetchOff /\ RetryOff /\ InsightOff /\ WindowOff /\ VenueOff

SeriesMetrics ==
    /\ k_pc = "series"
    /\ k_out' = compute_series_metrics(k_in)
    /\ k_pc' = "series_done"
    /\ UNCHANGED k_in
    /\ UNCHANGED <<harvestVars, mergeVars, resolveVars, windowVars, venueVars,
                   fetchVars, retryVars,
                   insightVars>>

CrossExchangeSpread ==
    /\ k_pc = "spread"
    /\ k_out' = compute_cross_exchange_spread(k_in)
    /\ k_pc' = "spread_done"
    /\ UNCHANGED k_in
    /\ UNCHANGED <<harvestVars, mergeVars, resolveVars, windowVars, venueVars,
                   fetchVars, retryVars,
                   insightVars>>

MetricNext == SeriesMetrics \/ CrossExchangeSpread

SpecMetrics == MetricInit /\ [][MetricNext]_vars

----------------------------------------------------------------------------
SpreadDone == k_pc = "spread_done"

\* The venues of the input that report the timestamp, and their closes.
VenuesAt(ts) == {name \in DOMAIN k_in : ts \in TsSet(k_in[name].candles)}
VenueCloses(ts) ==
    UNION {{k_in[name].candles[i].close[2] :
               i \in {j \in DOMAIN k_in[name].candles :
                         k_in[name].candles[j].timestamp_ms = ts}} :
           name \in VenuesAt(ts)}
Shared == {ts \in AllTimestamps(k_in) : Cardinality(VenuesAt(ts)) >= 2}
Hi(ts) == MaxOf(VenueCloses(ts))
Lo(ts) == MinOf(VenueCloses(ts))
\* (max - min) / ((max + min) / 2) and max - min
RelSpreadAt(ts) == Rat(2 * (Hi(ts) - Lo(ts)), Hi(ts) + Lo(ts))
AbsSpreadAt(ts) == RatInt(Hi(ts) - Lo(ts))

MedianOver(S, F(_)) ==
    LET ord == SortedKeys(S) IN median([j \in DOMAIN ord |-> F(ord[j])])

\* venue A = 100 and venue B = 110 at one shared timestamp
IsSpreadExample ==
    /\ DOMAIN k_in = {"binance", "okx"}
    /\ k_in["binance"].candles = SeriesOf(<<100>>)
    /\ k_in["okx"].candles = SeriesOf(<<110>>)

SpreadExampleHolds ==
    IsSpreadExample => k_out = [rel |-> <<Rat(10, 105)>>, abs |-> <<RatInt(10)>>]

\* C16 as stated: the timestamps that count are those reported by at least
\* two venues whose midpoint is not 0; the relative result is the median of
\* (max-min)/midpoint and the absolute result the median of max-min, both
\* over that same set of timestamps (none: both null); A=100, B=110 at one
\* timestamp give 10/105 and 10.
C16_BothMediansOverOneSet ==
    SpreadDone =>
        LET Q == {ts \in Shared : Hi(ts) + Lo(ts) # 0}
        IN  /\ k_out = IF Q = {} THEN [rel |-> <<>>, abs |-> <<>>]
                       ELSE [rel |-> MedianOver(Q, RelSpreadAt),
                             abs |-> MedianOver(Q, AbsSpreadAt)]
            /\ SpreadExampleHolds

\* C16 amended: closes are grouped by equal timestamp and a timestamp counts
\* when at least two venues report it; the relative result is the median of
\* (max-min)/midpoint over the counted timestamps with a midpoint > 0, the
\* absolute result is the median of max-min over all counted timestamps, and
\* both are null when no counted timestamp has a midpoint > 0; A=100, B=110
\* at one timestamp give 10/105 and 10.
C16_SpreadMedians ==
    SpreadDone =>
        LET Q == {ts \in Shared : Hi(ts) + Lo(ts) > 0}
        IN  /\ k_out = IF Q = {} THEN [rel |-> <<>>, abs |-> <<>>]
                       ELSE [rel |-> MedianOver(Q, RelSpreadAt),
                             abs |-> MedianOver(Shared, AbsSpreadAt)]
            /\ SpreadExampleHolds

\* A spread computed from one shared timestamp with midpoint 0 and one with
\* a positive midpoint: the two medians are taken over different timestamps.
C16_Witness ==
    /\ SpreadDone
    /\ k_out.rel # <<>>
    /\ \E ts \in Shared : Hi(ts) + Lo(ts) = 0
    /\ \E ts \in Shared : Hi(ts) + Lo(ts) > 0
    /\ k_out.abs # MedianOver({ts \in Shared : Hi(ts) + Lo(ts) > 0}, AbsSpreadAt)

----------------------------------------------------------------------------
SeriesDone == k_pc = "series_done"
CloseAt(i) == k_in[i].close[2]
ClosesAre(closes) == k_in = SeriesOf(closes)

\* the highest close up to candle i, and close_i / that - 1
PeakUpTo(i) == MaxOf({CloseAt(j) : j \in 1..i})
DrawdownAt(i) == Rat(CloseAt(i) - PeakUpTo(i), PeakUpTo(i))

\* C17: whenever compute_series_metrics returns metrics, max_drawdown is the
\* least, over the candles, of close / (highest close so far) - 1, the
\* highest close so far starting at the first close; it is never above 0;
\* closes [100, 50, 100] give -0.5 and closes [100, 150] give 0.
C17_MaxDrawdown ==
    (SeriesDone /\ k_out.kind = "ok") =>
        /\ \E i \in DOMAIN k_in : k_out.max_drawdown = DrawdownAt(i)
        /\ \A i \in DOMAIN k_in : RatLeq(k_out.max_drawdown, DrawdownAt(i))
        /\ RatLeq(k_out.max_drawdown, RatZero)
        /\ ClosesAre(<<100, 50, 100>>) => k_out.max_drawdown = Rat(0 - 1, 2)
        /\ ClosesAre(<<100, 150>>) => k_out.max_drawdown = RatZero

\* Metrics of a series that rose above its first close and then fell: the
\* drawdown is measured from the later peak.
C17_Witness ==
    /\ SeriesDone /\ k_out.kind = "ok"
    /\ RatLess(k_out.max_drawdown, RatZero)
    /\ \E i \in DOMAIN k_in :
          /\ PeakUpTo(i) > CloseAt(1)
          /\ k_out.max_drawdown = DrawdownAt(i)

\* C18 as stated: compute_series_metrics returns None exactly when the
\* series has fewer than 2 candles or its first or last close is <= 0, and
\* otherwise returns cum_return = last / first - 1 and days = the number of
\* candles; closes [100, 150] give 0.5.
C18_ResultUnlessShortOrNonPositiveEnds ==
    SeriesDone =>
        LET n == Len(k_in)
        IN  /\ IF n < 2 \/ CloseAt(1) <= 0 \/ CloseAt(n) <= 0
               THEN k_out.kind = "none"
               ELSE /\ k_out.kind = "ok"
                    /\ k_out.cum_return = Rat(CloseAt(n) - CloseAt(1), CloseAt(1))
                    /\ k_out.days = n
            /\ ClosesAre(<<100, 150>>) => k_out.cum_return = Rat(1, 2)

----------------------------------------------------------------------------
(* The insights run: compute_quant_insights.main over the stored records.   *)

PRIMARY_EXCHANGE_ORDER == <<"binance", "coinbase", "okx", "bybit", "upbit">>

\* load_coin_history: None when the file is missing or is not JSON
load_coin_history(file) == IF file.state = "ok" THEN <<file>> ELSE <<>>

\* Lines 109-115: the first venue of PRIMARY_EXCHANGE_ORDER that the record
\* holds; a record with none of them gives its first key (the drawn records
\* hold listed venues only, so key order is not modelled).
PrimaryExchange(exchange_data) ==
    LET listed == {i \in DOMAIN PRIMARY_EXCHANGE_ORDER :
                      PRIMARY_EXCHANGE_ORDER[i] \in DOMAIN exchange_data}
    IN  IF listed # {} THEN PRIMARY_EXCHANGE_ORDER[MinOf(listed)]
        ELSE CHOOSE name \in DOMAIN exchange_data : TRUE

\* exchange_metrics[name].append(entry)
MetricsAppend(exchange_metrics, name, entry) ==
    DictPut(exchange_metrics, name,
            IF name \in DOMAIN exchange_metrics
            THEN Append(exchange_metrics[name], entry) ELSE <<entry>>)

\* Lines 123-126: the loop over the venues of the record, taken in the
\* order of PRIMARY_EXCHANGE_ORDER; [raised, exchange_metrics].
RECURSIVE PerExchangeLoop(_, _, _, _, _)
PerExchangeLoop(coin, exchange_data, names, i, exchange_metrics) ==
    IF i > Len(names) THEN [raised |-> FALSE, exchange_metrics |-> exchange_metrics]
    ELSE LET metrics == compute_series_metrics(exchange_data[names[i]].candles)
         IN  IF metrics.kind = "raise"
             THEN [raised |-> TRUE, exchange_metrics |-> exchange_metrics]
             ELSE PerExchangeLoop(coin, exchange_data, names, i + 1,
                     IF metrics.kind = "ok"
                     THEN MetricsAppend(exchange_metrics, names[i],
                                        [coin |-> coin, metrics |-> metrics])
                     ELSE exchange_metrics)

\* sorted list of a set of venue names, in PRIMARY_EXCHANGE_ORDER
VenueOrder(names) ==
    LET ord == SortedKeys({i \in DOMAIN PRIMARY_EXCHANGE_ORDER :
                              PRIMARY_EXCHANGE_ORDER[i] \in names})
    IN  [j \in DOMAIN ord |-> PRIMARY_EXCHANGE_ORDER[ord[j]]]

\* build_coin_metrics: [kind, metrics, exchange_metrics]; kind is "none"
\* for None, "raise" for an exception of compute_series_metrics, else "ok".
build_coin_metrics(coin, payload, exchange_metrics) ==
    LET exchange_data == payload.exchanges
        none == [kind |-> "none", exchange_metrics |-> exchange_metrics]
    IN  IF exchange_data = EmptyDict THEN none
        ELSE LET primary_exchange == PrimaryExchange(exchange_data)
                 series_metrics ==
                     compute_series_metrics(exchange_data[primary_exchange].candles)
                 per == PerExchangeLoop(coin, exchange_data,
                                        VenueOrder(DOMAIN exchange_data), 1,
                                        exchange_metrics)
                 spread == compute_cross_exchange_spread(exchange_data)
             IN  IF series_metrics.kind = "none" THEN none
                 ELSE IF series_metrics.kind = "raise"
                 THEN [kind |-> "raise", exchange_metrics |-> exchange_metrics]
                 ELSE IF per.raised
                 THEN [kind |-> "raise", exchange_metrics |-> per.exchange_metrics]
                 ELSE [kind |-> "ok",
                       metrics |-> [coin              |-> coin,
                                    primary_exchange  |-> primary_exchange,
                                    median_rel_spread |-> spread.rel,
                                    median_abs_spread |-> spread.abs,
                                    days              |-> series_metrics.days,
                                    cum_return        |-> series_metrics.cum_return,
                                    max_drawdown      |-> series_metrics.max_drawdown,
                                    volatility        |-> series_metrics.volatility],
                       exchange_metrics |-> per.exchange_metrics]

\* list(per_coin.values()): the metrics in the order the coins were added
CoinMetricList(coin_list, per_coin) ==
    LET ord == SortedKeys({i \in DOMAIN coin_list : coin_list[i] \in DOMAIN per_coin})
    IN  [j \in DOMAIN ord |-> per_coin[coin_list[ord[j]]]]

\* A spread median that counts a missing spread as 0.
SpreadValuesNullAsZero(coin_metric_list) ==
    [j \in DOMAIN coin_metric_list |->
        IF coin_metric_list[j].median_rel_spread = <<>> THEN RatZero
        ELSE coin_metric_list[j].median_rel_spread[1]]

\* Lines 207-209: the values handed to the median of the spreads.
SpreadValues(coin_metric_list) ==
    LET ord == SortedKeys({j \in DOMAIN coin_metric_list :
                              coin_metric_list[j].median_rel_spread # <<>>})
    IN  [h \in DOMAIN ord |-> coin_metric_list[ord[h]].median_rel_spread[1]]

\* Lines 202-210: summary, Optional: <<>> for the StatisticsError of a
\* median of no values.  The median of the volatilities is kept as the list
\* it is taken of.
Summary(coin_metric_list) ==
    LET returns   == [j \in DOMAIN coin_metric_list |-> coin_metric_list[j].cum_return]
        drawdowns == [j \in DOMAIN coin_metric_list |-> coin_metric_list[j].max_drawdown]
        spreads   == SpreadValues(coin_metric_list)
    IN  IF median(returns) = <<>> \/ median(drawdowns) = <<>> \/ median(spreads) = <<>>
        THEN <<>>
        ELSE <<[coins             |-> Len(coin_metric_list),
                median_cum_return |-> median(returns)[1],
                median_drawdown   |-> median(drawdowns)[1],
                median_volatility |->
                    [median_of |-> [j \in DOMAIN coin_metric_list |->
                                       coin_metric_list[j].volatility]],
                median_spread     |-> median(spreads)[1]]>>

\* statistics.mean of a non-empty list
RECURSIVE RatSum(_)
RatSum(data) ==
    IF data = <<>> THEN RatZero
    ELSE RatAdd(data[1], RatSum(SubSeq(data, 2, Len(data))))

mean(data) == RatDiv(RatSum(data), RatInt(Len(data)))

\* Lines 139-150: a summary for every venue with at least one entry.
summarize_exchange_metrics(metrics) ==
    [name \in {n \in DOMAIN metrics : metrics[n] # <<>>} |->
        LET entries == metrics[name]
        IN  [count           |-> Len(entries),
             avg_cum_return  |-> mean([j \in DOMAIN entries |->
                                         entries[j].metrics.cum_return]),
             median_drawdown |-> median([j \in DOMAIN entries |->
                                            entries[j].metrics.max_drawdown])[1],
             median_volatility |->
                 [median_of |-> [j \in DOMAIN entries |->
                                    entries[j].metrics.volatility]]]]

\* sorted(data, key=lambda item: item.get("cum_return", 0)): stable.
InsertByReturn(sorted, x) ==
    LET k == Cardinality({i \in DOMAIN sorted : RatLeq(sorted[i].cum_return, x.cum_return)})
    IN  SubSeq(sorted, 1, k) \o <<x>> \o SubSeq(sorted, k + 1, Len(sorted))

RECURSIVE SortByReturnFrom(_, _)
SortByReturnFrom(data, n) ==
    IF n = 0 THEN <<>>
    ELSE InsertByReturn(SortByReturnFrom(data, n - 1), data[n])

SortByReturn(data) == SortByReturnFrom(data, Len(data))

\* Lines 153-157 with key = "cum_return" and no limit.
build_distribution(data) ==
    LET items == SortByReturn(data)
    IN  [j \in DOMAIN items |-> [coin |-> items[j].coin, cum_return |-> items[j].cum_return]]

\* Lines 222-226: the assets with a spread, in the order of the list.
spread_distribution(coin_metric_list) ==
    LET ord == SortedKeys({j \in DOMAIN coin_metric_list :
                              coin_metric_list[j].median_rel_spread # <<>>})
    IN  [h \in DOMAIN ord |->
            [coin |-> coin_metric_list[ord[h]].coin,
             median_rel_spread |-> coin_metric_list[ord[h]].median_rel_spread[1]]]

InsightCloses == {0, 100, 110}


OneVenue(name, series) == [n \in {name} |-> VenueData(series)]
TwoVenues(a, b) ==
    [n \in {"binance", "okx"} |-> IF n = "binance" THEN VenueData(a) ELSE VenueData(b)]

\* The catalogs and record stores of a run: one asset on two venues, two
\* assets on one venue each, a two-venue asset beside a one-venue asset, and
\* two two-venue assets, the second with the same series on both venues.
InsightStores(InsightSeries, ShortSeries) ==
    {[coins |-> <<>>, hist |-> EmptyDict],
     [coins |-> <<<<>>>>, hist |-> EmptyDict]}
    \cup
    {[coins |-> <<<<BTC>>>>, hist |-> [c \in {BTC} |-> f]] :
        f \in {AbsentFile, UnreadableFile, WrittenFile(EmptyDict)} \cup
              {WrittenFile(TwoVenues(a, b)) : a \in InsightSeries, b \in InsightSeries}}
    \cup
    {[coins |-> <<<<BTC, ETH>>>>, hist |-> [c \in {BTC, ETH} |-> IF c = BTC THEN f ELSE g]] :
        f \in {AbsentFile} \cup {WrittenFile(OneVenue("binance", a)) : a \in InsightSeries},
        g \in {AbsentFile} \cup {WrittenFile(OneVenue("okx", a)) : a \in InsightSeries}}
    \cup
    {[coins |-> <<<<BTC, ETH>>>>,
      hist |-> [c \in {BTC, ETH} |-> IF c = BTC THEN WrittenFile(TwoVenues(a, b))
                                     ELSE WrittenFile(OneVenue("binance", e))]] :
        a \in ShortSeries, b \in ShortSeries, e \in ShortSeries}
    \cup
    {[coins |-> <<<<BTC, ETH>>>>,
      hist |-> [c \in {BTC, ETH} |-> IF c = BTC THEN WrittenFile(TwoVenues(a, b))
                                     ELSE WrittenFile(TwoVenues(e, e))]] :
        a \in ShortSeries, b \in ShortSeries, e \in ShortSeries}

\* q_coins is what load_common_coins gives, Optional: <<>> for a coins file
\* that cannot be read (the call raises), <<list>> for the list it returns.
InsightInit ==
    /\ \E st \in InsightStores(SeriesUpTo(InsightCloses, MaxCandles),
                                SeriesUpTo(Prices, MaxCandles - 1)) :
          /\ q_coins = st.coins
          /\ q_hist = st.hist
    /\ q_idx = 0
    /\ q_per_coin = EmptyDict
    /\ q_exchange_metrics = EmptyDict
    /\ q_out = <<>>
    /\ q_pc = "start"
    /\ HarvestOff /\ MergeOff /\ ResolveOff
    /\ FetchOff /\ RetryOff /\ MetricOff /\ WindowOff /\ VenueOff

Raised(error) == [kind |-> "raise", error |-> error]
Exit(code)    == [kind |-> "exit", code |-> code]

\* Lines 170-177: the coins are loaded; an unreadable file is an exception
\* that nothing catches, an empty list ends the run with exit code 1.
LoadCoins ==
    /\ q_pc = "start"
    /\ IF q_coins = <<>>
       THEN q_pc' = "done" /\ q_out' = Raised("coins file") /\ UNCHANGED q_idx
       ELSE IF q_coins[1] = <<>>
       THEN q_pc' = "done" /\ q_out' = Exit(1) /\ UNCHANGED q_idx
       ELSE q_pc' = "loop" /\ q_idx' = 1 /\ UNCHANGED q_out
    /\ UNCHANGED <<q_coins, q_hist, q_per_coin, q_exchange_metrics>>
    /\ UNCHANGED <<harvestVars, mergeVars, resolveVars, windowVars, venueVars,
                   fetchVars, retryVars,
                   metricVars>>

\* Lines 179-185: one pass of the loop over coins.
InsightCoin ==
    /\ q_pc = "loop"
    /\ q_idx <= Len(q_coins[1])
    /\ LET coin    == q_coins[1][q_idx]
           payload == load_coin_history(q_hist[coin])
           built   == build_coin_metrics(coin, payload[1], q_exchange_metrics)
       IN  IF payload = <<>>
           THEN /\ q_idx' = q_idx + 1
                /\ UNCHANGED <<q_per_coin, q_exchange_metrics, q_out, q_pc>>
           ELSE IF built.kind = "raise"
           THEN /\ q_pc' = "done"
                /\ q_out' = Raised("ValueError")
                /\ q_exchange_metrics' = built.exchange_metrics
                /\ UNCHANGED <<q_per_coin, q_idx>>
           ELSE /\ q_idx' = q_idx + 1
                /\ q_exchange_metrics' = built.exchange_metrics
                /\ q_per_coin' = IF built.kind = "ok"
                                 THEN DictPut(q_per_coin, coin, built.metrics)
                                 ELSE q_per_coin
                /\ UNCHANGED <<q_out, q_pc>>
    /\ UNCHANGED <<q_coins, q_hist>>
    /\ UNCHANGED <<harvestVars, mergeVars, resolveVars, windowVars, venueVars,
                   fetchVars, retryVars,
                   metricVars>>

\* Lines 187-232: nothing to report (exit code 1), or the summary and the
\* report; a median of no values raises StatisticsError.
Aggregate ==
    /\ q_pc = "loop"
    /\ q_idx > Len(q_coins[1])
    /\ LET coin_metric_list == CoinMetricList(q_coins[1], q_per_coin)
           summary == Summary(coin_metric_list)
       IN  q_out' = IF q_per_coin = EmptyDict THEN Exit(1)
                    ELSE IF summary = <<>> THEN Raised("StatisticsError")
                    ELSE [kind |-> "report", code |-> 0,
                          coins_processed |-> Cardinality(DOMAIN q_per_coin),
                          coin_metrics |-> q_per_coin,
                          summary |-> summary[1],
                          exchange_summary |->
                              summarize_exchange_metrics(q_exchange_metrics),
                          return_distribution |-> build_distribution(coin_metric_list),
                          spread_distribution |-> spread_distribution(coin_metric_list)]
    /\ q_pc' = "done"
    /\ UNCHANGED <<q_coins, q_hist, q_idx, q_per_coin, q_exchange_metrics>>
    /\ UNCHANGED <<harvestVars, mergeVars, resolveVars, windowVars, venueVars,
                   fetchVars, retryVars,
                   metricVars>>

InsightNext == LoadCoins \/ InsightCoin \/ Aggregate

SpecInsights == InsightInit /\ [][InsightNext]_vars

----------------------------------------------------------------------------
InsightsDone == q_pc = "done"
Catalog == IF q_coins = <<>> THEN {} ELSE {q_coins[1][i] : i \in DOMAIN q_coins[1]}
RecordOf(coin) == q_hist[coin].exchanges

\* The asset has a readable record whose primary venue series has at least
\* two candles and positive first and last closes.
YieldsMetrics(coin) ==
    /\ q_hist[coin].state = "ok"
    /\ RecordOf(coin) # EmptyDict
    /\ LET candles == RecordOf(coin)[PrimaryExchange(RecordOf(coin))].candles
       IN  /\ Len(candles) >= 2
           /\ candles[1].close[2] > 0
           /\ candles[Len(candles)].close[2] > 0

\* C14 as stated: the insights run ends without a report only when the coins
\* file cannot be read or no asset yields metrics; whenever an asset yields
\* metrics the run writes a report and returns 0, also when every asset has
\* a null spread and when a series has a zero or negative interior close.
C14_FailsOnlyWithoutMetrics ==
    InsightsDone =>
        ((\E coin \in Catalog : YieldsMetrics(coin)) =>
            (q_out.kind = "report" /\ q_out.code = 0))

\* An asset with metrics whose record holds exactly one venue.
SingleVenue(coin) ==
    coin \in DOMAIN q_per_coin /\ Cardinality(DOMAIN RecordOf(coin)) = 1

WithMetrics == SortedKeys({i \in DOMAIN q_coins[1] : q_coins[1][i] \in DOMAIN q_per_coin})
WithSpread  ==
    SortedKeys({i \in DOMAIN q_coins[1] :
                   /\ q_coins[1][i] \in DOMAIN q_per_coin
                   /\ ~SingleVenue(q_coins[1][i])
                   /\ q_per_coin[q_coins[1][i]].median_rel_spread # <<>>})
MetricAt(i) == q_per_coin[q_coins[1][i]]

\* C15: an asset whose record holds one venue gets a null relative and a
\* null absolute spread; in a written report the median spread is taken over
\* the other assets' spreads only, while the median return, drawdown and
\* volatility are taken over every asset with metrics, that asset included.
C15_SingleVenueAsset ==
    /\ q_pc \in {"loop", "done"} =>
          \A coin \in Catalog :
              SingleVenue(coin) =>
                  /\ q_per_coin[coin].median_rel_spread = <<>>
                  /\ q_per_coin[coin].median_abs_spread = <<>>
    /\ (InsightsDone /\ q_out.kind = "report") =>
          /\ <<q_out.summary.median_spread>> =
                 median([j \in DOMAIN WithSpread |->
                            MetricAt(WithSpread[j]).median_rel_spread[1]])
          /\ <<q_out.summary.median_cum_return>> =
                 median([j \in DOMAIN WithMetrics |-> MetricAt(WithMetrics[j]).cum_return])
          /\ <<q_out.summary.median_drawdown>> =
                 median([j \in DOMAIN WithMetrics |-> MetricAt(WithMetrics[j]).max_drawdown])
          /\ q_out.summary.median_volatility.median_of =
                 [j \in DOMAIN WithMetrics |-> MetricAt(WithMetrics[j]).volatility]

\* A report over a one-venue asset and a two-venue asset with a spread, in
\* which the one-venue asset moves the median return.
C15_Witness ==
    /\ InsightsDone /\ q_out.kind = "report"
    /\ \E one \in Catalog, two \in Catalog :
          /\ SingleVenue(one)
          /\ two \in DOMAIN q_per_coin /\ q_per_coin[two].median_rel_spread # <<>>
          /\ q_out.summary.median_spread = q_per_coin[two].median_rel_spread[1]
          /\ q_out.summary.median_spread # RatZero
          /\ q_out.summary.median_cum_return # q_per_coin[two].cum_return

----------------------------------------------------------------------------
(* fetch_listed_coins: _fetch_bybit_via_coingecko and the retry of its      *)
(* requests, _fetch_coingecko_with_retry, one request per step.  Delays are *)
(* in quarters of a second, which keeps 10 * 1.5 * 1.5 = 22.5 s an integer. *)

Seconds(n) == 4 * n

\* retries = 6
RETRIES == 6

\* Longest run of pages (max_pages) of the model.
MaxPages == 2

\* What fetch_json does with one request: it returns the payload, or raises
\* FetchError whose text holds the HTTP status ("HTTP Error 429: ...") or
\* the network error.  The page number in the URL never reads 429
\* (max_pages is 50).
CoinGeckoErrors == {"http_429", "http_500", "network"}

\* "429" in message
IsRateLimited(error) == error = "http_429"

\* the bases of the tickers of a page; <<>> is a ticker without a base
TickerPages == {{}, {<<>>}, {btc}, {btc, ETH}}

\* A backoff that is never capped.
NextBackoffUncapped(backoff) == (backoff * 3) \div 2

\* Line 210: backoff = min(backoff * 1.5, 30.0)
NextBackoff(backoff) ==
    IF (backoff * 3) \div 2 < Seconds(30) THEN (backoff * 3) \div 2 ELSE Seconds(30)

RetryInit ==
    /\ g_page = 1
    /\ g_assets = {}
    /\ g_attempt = 0
    /\ g_backoff = Seconds(10)
    /\ g_slept = <<>>
    /\ g_resp = <<>>
    /\ g_pc = "request"
    /\ HarvestOff /\ MergeOff /\ ResolveOff
    /\ FetchOff /\ MetricOff /\ InsightOff /\ WindowOff /\ VenueOff

\* Lines 199 and 173-191: fetch_json returns the page; the tickers are
\* added to assets and the next page is requested, or the loop ends.
TickersReturned ==
    /\ g_pc = "request"
    /\ \E tickers \in TickerPages :
          LET assets == g_assets \cup {Upper(base) : base \in tickers \ {<<>>}}
              last_page == tickers = {} \/ g_page = MaxPages
          IN  /\ g_resp' = <<[error |-> "none", tickers |-> tickers]>>
              /\ g_assets' = IF tickers = {} THEN g_assets ELSE assets
              /\ g_pc' = IF ~last_page THEN "request"
                         ELSE IF g_assets' = {} THEN "raised" ELSE "returned"
              /\ g_page' = IF last_page THEN g_page ELSE g_page + 1
    /\ g_attempt' = 0
    /\ g_backoff' = Seconds(10)
    /\ g_slept' = <<>>
    /\ UNCHANGED <<harvestVars, mergeVars, resolveVars, windowVars, venueVars,
                   fetchVars, metricVars,
                   insightVars>>

\* Lines 200-212: fetch_json raises FetchError; a rate-limited request that
\* has attempts left sleeps and is made again, any other error is raised.
RequestFailed ==
    /\ g_pc = "request"
    /\ \E error \in CoinGeckoErrors :
          /\ g_resp' = <<[error |-> error, tickers |-> {}]>>
          /\ IF IsRateLimited(error) /\ g_attempt < RETRIES - 1
             THEN /\ g_slept' = Append(g_slept, g_backoff)
                  /\ g_backoff' = NextBackoff(g_backoff)
                  /\ g_attempt' = g_attempt + 1
                  /\ g_pc' = "request"
             ELSE /\ g_pc' = "raised"
                  /\ UNCHANGED <<g_slept, g_backoff, g_attempt>>
    /\ UNCHANGED <<g_page, g_assets>>
    /\ UNCHANGED <<harvestVars, mergeVars, resolveVars, windowVars, venueVars,
                   fetchVars, metricVars,
                   insightVars>>

RetryNext == TickersReturned \/ RequestFailed

SpecRetry == RetryInit /\ [][RetryNext]_vars

\* The venue clients together: the CoinGecko client of the coin lists and
\* the cursor fetcher of the daily candles.
SpecClients == (RetryInit \/ FetchInit) /\ [][RetryNext \/ FetchNext]_vars

----------------------------------------------------------------------------
\* The request just made was answered with a rate-limit error.
CoinGeckoRateLimited == g_pc = "request" /\ g_resp'[1].error = "http_429"
CoinGeckoOtherError  == g_pc = "request" /\ g_resp'[1].error \in {"http_500", "network"}
FetcherRateLimited   == f_pc = "loop" /\ f_page'[1].err = "rate_limit"

\* The same request is made again after one more sleep.
CoinGeckoRetries ==
    /\ g_pc' = "request"
    /\ g_page' = g_page /\ g_assets' = g_assets
    /\ g_attempt' = g_attempt + 1
    /\ Len(g_slept') = Len(g_slept) + 1

\* The delays slept start at 10 s, grow by the factor 1.5 from one attempt
\* to the next up to 30 s, and there are fewer of them than attempts.
DelaysBounded ==
    /\ g_attempt = Len(g_slept)
    /\ Len(g_slept) <= RETRIES - 1
    /\ \A i \in DOMAIN g_slept :
          /\ g_slept[i] <= Seconds(30)
          /\ i = 1 => g_slept[i] = Seconds(10)
          /\ i > 1 => \/ 2 * g_slept[i] = 3 * g_slept[i - 1]
                      \/ g_slept[i] = Seconds(30) /\ 3 * g_slept[i - 1] >= 2 * Seconds(30)

RetryRules ==
    /\ (CoinGeckoRateLimited /\ g_attempt < RETRIES - 1) => CoinGeckoRetries
    /\ (CoinGeckoRateLimited /\ g_attempt = RETRIES - 1) =>
          (g_pc' = "raised" /\ g_slept' = g_slept)
    /\ CoinGeckoOtherError => (g_pc' = "raised" /\ g_slept' = g_slept)

----------------------------------------------------------------------------
\* The record is what a completed iteration of this run writes for the coin
\* from the record the run found.
WrittenByIteration(coin) ==
    \/ /\ last.op = "harvest" /\ last.coin = coin /\ last.wrote
       /\ store[coin] = MainIteration(before_run[coin], args, exchanges, last.env).file
    \/ \E env \in Envs(exchanges, coin) :
          LET it == MainIteration(before_run[coin], args, exchanges, env)
          IN  it.wrote /\ store[coin] = it.file

\* Between two iterations: the coins not reached yet have the record the
\* run found, the others that one or the record their iteration wrote.
RecordsWhole ==
    \A k \in DOMAIN coins :
        \/ store[coins[k]] = before_run[coins[k]]
        \/ k < idx /\ WrittenByIteration(coins[k])

\* A step of the run leaves the records of all other coins as they are.
TouchesOwnRecordOnly ==
    \A c \in DOMAIN store :
        (idx > Len(coins) \/ c # coins[idx]) => store'[c] = store[c]

\* C20: wherever a harvest run is stopped between two iterations, every
\* record of the store is the one the run found or the one its completed
\* iteration wrote, and no iteration changes the record of another coin.
C20_StoppedRunLeavesWholeRecords ==
    /\ [](pc \in {"run", "stopped"} => RecordsWhole)
    /\ [][pc = "run" => TouchesOwnRecordOnly]_vars

\* A run stopped after it rewrote the record of its first coin and before
\* it reached the stored record of its second coin.
C20_Witness ==
    /\ pc = "stopped"
    /\ idx = 2
    /\ before_run[coins[1]].state = "ok"
    /\ store[coins[1]] # before_run[coins[1]]
    /\ store[coins[2]].state = "ok"
    /\ store[coins[2]] = before_run[coins[2]]

----------------------------------------------------------------------------
Reported == InsightsDone /\ q_out.kind = "report"

\* The values of a list of rationals do not decrease along it.
Ascending(values) ==
    \A i \in DOMAIN values, j \in DOMAIN values : i < j => RatLeq(values[i], values[j])

CoinsOf(distribution) == {distribution[i].coin : i \in DOMAIN distribution}

\* C21 as stated: in a written report return_distribution holds every asset
\* with metrics once, in ascending order of cum_return, and
\* spread_distribution holds every asset with a non-null spread once, in
\* ascending order of median_rel_spread.
C21_DistributionsSortedAscending ==
    Reported =>
        LET returns == q_out.return_distribution
            spreads == q_out.spread_distribution
        IN  /\ Len(returns) = Cardinality(DOMAIN q_per_coin)
            /\ CoinsOf(returns) = DOMAIN q_per_coin
            /\ \A i \in DOMAIN returns :
                  returns[i].cum_return = q_per_coin[returns[i].coin].cum_return
            /\ Ascending([i \in DOMAIN returns |-> returns[i].cum_return])
            /\ CoinsOf(spreads) =
                  {c \in DOMAIN q_per_coin : q_per_coin[c].median_rel_spread # <<>>}
            /\ Len(spreads) = Cardinality(CoinsOf(spreads))
            /\ \A i \in DOMAIN spreads :
                  <<spreads[i].median_rel_spread>> =
                      q_per_coin[spreads[i].coin].median_rel_spread
            /\ Ascending([i \in DOMAIN spreads |-> spreads[i].median_rel_spread])

\* The series has at least two candles and positive first and last closes.
SeriesQualifies(candles) ==
    /\ Len(candles) >= 2
    /\ candles[1].close[2] > 0
    /\ candles[Len(candles)].close[2] > 0

\* The assets a venue's summary counts.
CountedAt(name) ==
    IF name \in DOMAIN q_exchange_metrics
    THEN {q_exchange_metrics[name][i].coin : i \in DOMAIN q_exchange_metrics[name]}
    ELSE {}

SummaryCount(name) ==
    IF name \in DOMAIN q_out.exchange_summary THEN q_out.exchange_summary[name].count ELSE 0

\* C29 as stated: in a written report the summary of a venue counts every
\* asset whose record holds a series of that venue with at least two candles
\* and positive first and last closes, whichever venue is the asset's primary
\* and whether or not the primary series itself gives metrics.
C29_VenueSummaryCountsEverySeries ==
    Reported =>
        \A coin \in Catalog :
            q_hist[coin].state = "ok" =>
                \A name \in DOMAIN RecordOf(coin) :
                    SeriesQualifies(RecordOf(coin)[name].candles) =>
                        /\ coin \in CountedAt(name)
                        /\ SummaryCount(name) = Cardinality(CountedAt(name))

----------------------------------------------------------------------------
\* The adjacent pairs (close_(i-1), close_i) of the series whose two closes
\* are strictly positive, by the position i of their second close.
PositivePairs == SortedKeys({i \in 2..Len(k_in) : CloseAt(i - 1) > 0 /\ CloseAt(i) > 0})

\* C28 as stated: for a series with at least 2 candles and positive first
\* and last closes compute_series_metrics returns metrics and does not
\* raise, also with a zero or negative close in the interior, and the
\* volatility is taken of the log returns of exactly the adjacent pairs with
\* two strictly positive closes (of none, which gives 0, when no pair has).
C28_LogReturnsOverPositivePairs ==
    (SeriesDone /\ Len(k_in) >= 2 /\ CloseAt(1) > 0 /\ CloseAt(Len(k_in)) > 0) =>
        /\ k_out.kind = "ok"
        /\ k_out.volatility.pstdev_of_log =
               [j \in DOMAIN PositivePairs |->
                   Rat(CloseAt(PositivePairs[j]), CloseAt(PositivePairs[j] - 1))]

----------------------------------------------------------------------------
\* resolve_market of a fresh fetcher of the venue on a catalog
ResolveOn(raw) == resolve_market(prepare(r_kind, r_name, raw), r_asset)

\* Every ordering of a catalog.
Orderings(raw) == {[i \in DOMAIN raw |-> raw[p[i]]] : p \in Permutations(DOMAIN raw)}

\* The catalog with one more entry, at any position.
WithEntry(raw, m) ==
    {SubSeq(raw, 1, k) \o <<m>> \o SubSeq(raw, k + 1, Len(raw)) : k \in 0..Len(raw)}

RefOf(m) == IF r_kind = "coinbase" THEN coinbase_ref(r_name, m) ELSE ccxt_ref(r_name, m)

\* The entry is a pair of the asset that ranks after the selected pair: its
\* quote has a worse priority, or an equal one and its symbol is larger.
RanksAfterSelection(m, selected) ==
    LET prio == QUOTE_PRIORITY(r_name)
    IN  /\ Kept(m)
        /\ Upper(m.base) = Upper(r_asset)
        /\ \/ RanksBefore(prio, selected.quote, RefOf(m).quote)
           \/ /\ SameRank(prio, selected.quote, RefOf(m).quote)
              /\ StrLess(selected.symbol, RefOf(m).symbol)

\* C27: resolve_market gives the same result on every ordering of the
\* venue's catalog, and the pair it selects stays selected when a pair of
\* the asset that ranks after it is added to the catalog, wherever it is
\* added.
C27_SelectionDeterministic ==
    r_pc = "resolved" =>
        /\ \A raw \in Orderings(r_raw) : ResolveOn(raw) = r_out
        /\ r_out # <<>> =>
              \A m \in RawMarkets :
                  RanksAfterSelection(m, r_out[1]) =>
                      \A raw \in WithEntry(r_raw, m) : ResolveOn(raw) = r_out

\* Three different pairs of the asset are listed and the one selected comes
\* last in the catalog, so some ordering puts each of the others first; a
\* further pair of the asset ranks after the selection.
C27_Witness ==
    /\ r_pc = "resolved"
    /\ r_out # <<>>
    /\ Len(r_raw) = 3
    /\ Cardinality(Candidates) = 3
    /\ RefOf(r_raw[3]) = r_out[1]
    /\ \E m \in RawMarkets : RanksAfterSelection(m, r_out[1]) /\ RefOf(m) \notin Candidates

----------------------------------------------------------------------------
(* CoinbaseFetcher.fetch_candles, one window of the while-loop per step.    *)
(* Instants are whole days counted from 2015-01-01T00:00Z; the venue        *)
(* answers each request with an error or with any batch of rows.            *)

\* Line 294: datetime(2015, 1, 1, tzinfo=UTC)
ORIGIN == 0
\* Line 296: window = timedelta(days=300)
WINDOW_DAYS == 300

\* The latest now, in thirds of a window.
MaxNow == 7

Tick == WINDOW_DAYS \div 3
Instants(ks) == {k * Tick : k \in ks}

\* Lines 291-294: start
StartOf(since_ms) == IF since_ms # <<>> THEN since_ms[1] ELSE ORIGIN

\* A window that always spans 300 days.
WindowEndUnclipped(start, now) == start + WINDOW_DAYS

\* Line 299: end = min(start + window, now)
WindowEnd(start, now) == IF start + WINDOW_DAYS <= now THEN start + WINDOW_DAYS ELSE now

WindowInit ==
    /\ w_since \in {<<>>} \cup {<<t>> : t \in Instants(1..(MaxNow + 1))}
    /\ w_now \in Instants(0..MaxNow)
    /\ w_start = StartOf(w_since)
    /\ w_windows = <<>>
    /\ w_candles = EmptyDict
    /\ w_out = <<>>
    /\ w_pc = "loop"
    /\ HarvestOff /\ MergeOff /\ ResolveOff
    /\ FetchOff /\ RetryOff /\ MetricOff /\ InsightOff /\ VenueOff

\* Lines 298-313: one pass of the while-loop; fetch_json raises FetchError
\* when the request fails.
RequestWindow ==
    /\ w_pc = "loop"
    /\ w_start < w_now
    /\ LET end == WindowEnd(w_start, w_now)
       IN  /\ w_windows' = Append(w_windows, [start |-> w_start, end |-> end])
           /\ \E page \in PagesOf(CoinbaseRows) :
                 IF page.err
                 THEN /\ w_pc' = "raised"
                      /\ w_out' = Raised("request failed")
                      /\ UNCHANGED <<w_start, w_candles>>
                 ELSE /\ w_candles' = coinbase_batch(page.batch, w_candles)
                      /\ w_start' = end
                      /\ UNCHANGED <<w_out, w_pc>>
    /\ UNCHANGED <<w_since, w_now>>
    /\ UNCHANGED <<harvestVars, mergeVars, resolveVars, fetchVars, retryVars,
                   metricVars, insightVars, venueVars>>

\* Lines 314-317: the loop has ended.
ReturnCandles ==
    /\ w_pc = "loop"
    /\ ~(w_start < w_now)
    /\ LET ordered == OrderedValues(w_candles)
       IN  IF ordered = <<>>
           THEN w_pc' = "raised" /\ w_out' = Raised("no data")
           ELSE w_pc' = "returned" /\ w_out' = [kind |-> "return", candles |-> ordered]
    /\ UNCHANGED <<w_since, w_now, w_start, w_windows, w_candles>>
    /\ UNCHANGED <<harvestVars, mergeVars, resolveVars, fetchVars, retryVars,
                   metricVars, insightVars, venueVars>>

WindowNext == RequestWindow \/ ReturnCandles

SpecWindows == WindowInit /\ [][WindowNext]_vars

\* The loop takes its next step whenever it has not left.
SpecWindowsFair == SpecWindows /\ WF_vars(WindowNext)

----------------------------------------------------------------------------
\* The loop ran to its end: every request was answered.
WindowsComplete == w_pc = "returned" \/ (w_pc = "raised" /\ w_out = Raised("no data"))

WindowsAsStated ==
    LET n == Len(w_windows)
    IN  /\ n >= 1 => w_windows[1].start = (IF w_since = <<>> THEN ORIGIN ELSE w_since[1])
        /\ \A i \in 1..n :
              /\ w_windows[i].end =
                    (IF w_windows[i].start + WINDOW_DAYS < w_now
                     THEN w_windows[i].start + WINDOW_DAYS ELSE w_now)
              /\ w_windows[i].start < w_windows[i].end
              /\ i < n => w_windows[i + 1].start = w_windows[i].end
        /\ (w_since # <<>> /\ w_since[1] >= w_now) => n = 0
        /\ WindowsComplete =>
              LET first == IF w_since = <<>> THEN ORIGIN ELSE w_since[1]
              IN  first < w_now =>
                      /\ n >= 1
                      /\ w_windows[n].end = w_now
                      /\ \A day \in first..w_now :
                            \E i \in 1..n : w_windows[i].start <= day /\ day <= w_windows[i].end

\* C26: fetch_candles of the Coinbase fetcher requests the windows
\* [start_i, end_i] with start_0 = since (2015-01-01 when since is null),
\* end_i = min(start_i + 300 days, now) and start_(i+1) = end_i; every window
\* is non-empty and begins where the one before it ends, so no two overlap;
\* when every request is answered the last window ends at now and every day
\* from start_0 to now lies in a window; no request is made when since is at
\* or after now; and the loop ends.
C26_WindowsCoverSinceToNow ==
    /\ []WindowsAsStated
    /\ <>(w_pc # "loop")

\* A fetch from a given since that returned after two windows, one of 300
\* days and a shorter last one that ends at now.
C26_Witness ==
    /\ w_pc = "returned"
    /\ w_since # <<>>
    /\ Len(w_windows) = 2
    /\ w_windows[1].start = w_since[1]
    /\ w_windows[1].end - w_windows[1].start = WINDOW_DAYS
    /\ w_windows[2].end - w_windows[2].start < WINDOW_DAYS
    /\ w_windows[2].end = w_now

----------------------------------------------------------------------------
FetchCallsOf(calls) == {k \in DOMAIN calls : calls[k].op = "fetch_candles"}

\* C22: an iteration of a --full-refresh run makes every fetch with since =
\* null; when some venue is fetched it writes a record that holds exactly the
\* venues fetched in this iteration, each with exactly the candles fetched
\* (nothing of the stored series), and when no venue is fetched it writes
\* nothing and the stored file stays as it was.
C22_FullRefreshIgnoresRecord ==
    (Harvested /\ last.full_refresh) =>
        LET fetched == {name \in Names : Fetched(name)}
        IN  /\ \A k \in FetchCallsOf(last.calls) : last.calls[k].since = <<>>
            /\ IF fetched = {}
               THEN ~last.wrote /\ store[last.coin] = last.before
               ELSE /\ last.wrote
                    /\ store[last.coin].state = "ok"
                    /\ DOMAIN StoredNow = fetched
                    /\ \A name \in fetched :
                          /\ StoredNow[name].candles = last.env[name].fetch[1]
                          /\ StoredNow[name].count = Len(last.env[name].fetch[1])

\* A --full-refresh iteration over a record of two venues: one venue was
\* fetched and lost a stored timestamp, the other failed and left the record.
C22_Witness ==
    /\ Harvested /\ last.full_refresh /\ last.wrote
    /\ \E name \in Names, other \in Names :
          /\ HadSeries(name) /\ HadSeries(other)
          /\ Fetched(name) /\ FetchFailed(other)
          /\ DOMAIN StoredNow = {name}
          /\ ~(TsSet(StoredBefore[name].candles) \subseteq TsSet(StoredNow[name].candles))

----------------------------------------------------------------------------
\* The series main loaded for the venue in the last iteration; <<>> when it
\* loaded no sub-record for it.
LoadedSeries(name) ==
    IF name \in DOMAIN LoadedExchanges THEN LoadedExchanges[name].candles ELSE <<>>

\* C23: harvest_coin calls fetch_candles at most once per venue; the call
\* carries since = (timestamp of the last stored candle of the venue) + one
\* day when the run is incremental and the stored series of the venue is not
\* empty, and since = null in every other case: full refresh, no stored
\* sub-record, or a stored sub-record without candles.
C23_SinceFromLastStoredCandle ==
    Harvested =>
        /\ \A k \in FetchCallsOf(last.calls) :
              LET name   == last.calls[k].exchange
                  series == LoadedSeries(name)
              IN  last.calls[k].since =
                      IF Incremental /\ last.before.state = "ok" /\ HadSeries(name)
                         /\ series # <<>>
                      THEN <<series[Len(series)].timestamp_ms + DAY_MS>>
                      ELSE <<>>
        /\ \A name \in Names :
              Cardinality(FetchCalls(last.calls, name)) =
                  (IF Unresolved(name) THEN 0 ELSE 1)

\* An incremental iteration over two venues: one has a stored series and is
\* asked for the day after its last candle, the other has a stored
\* sub-record without candles and is asked for everything.
C23_Witness ==
    /\ Harvested /\ Incremental
    /\ \E name \in Names, other \in Names :
          /\ HadSeries(name)
          /\ StoredBefore[name].candles # <<>>
          /\ HasCall(last.calls,
                     FetchCall(name, <<StoredBefore[name].candles[
                                           Len(StoredBefore[name].candles)].timestamp_ms
                                       + DAY_MS>>))
          /\ HadSeries(other)
          /\ StoredBefore[other].candles = <<>>
          /\ HasCall(last.calls, FetchCall(other, <<>>))

----------------------------------------------------------------------------
\* C24 as stated: every venue sub-record of a record that an iteration of
\* the harvester writes holds at least one candle; a venue whose series is
\* empty, a retained sub-record with an empty candle list included, is not
\* in the written record.
C24_WrittenSeriesNonEmpty ==
    (Harvested /\ last.wrote) =>
        \A name \in DOMAIN StoredNow : StoredNow[name].candles # <<>>

----------------------------------------------------------------------------
\* Every candle the fetch returned is a stored candle of the venue.
RepeatsStored(name) ==
    /\ Fetched(name)
    /\ \A i \in DOMAIN last.env[name].fetch[1] :
          \E j \in DOMAIN StoredBefore[name].candles :
              StoredBefore[name].candles[j] = last.env[name].fetch[1][i]

\* C25 as stated: in an incremental iteration, a venue with a stored series
\* for which the client reports no new data, by a fetch error or by
\* returning stored candles again, keeps its stored sub-record: the written
\* record holds it with the same market, quote, count and candles.
C25_NoNewDataKeepsSubRecord ==
    (Harvested /\ Incremental) =>
        \A name \in Names :
            (/\ HadSeries(name)
             /\ StoredBefore[name].candles # <<>>
             /\ (FetchFailed(name) \/ RepeatsStored(name))) =>
                /\ name \in DOMAIN StoredNow
                /\ StoredNow[name] = StoredBefore[name]

----------------------------------------------------------------------------
\* The candles the venue holds at or after since_ms, ascending.
VenueCandlesFrom(rows, since_ms) ==
    LET keep == RowsFrom(rows, since_ms)
    IN  OrderedValues([ts \in {r.ts : r \in keep} |->
            build_candle(ts, (CHOOSE r \in keep : r.ts = ts).close)])

\* When fetch_candles has left the loop it has collected exactly the
\* venue's candles from since_ms on, and returns them when there are any.
CursorExact ==
    f_pc # "loop" =>
        LET expected == VenueCandlesFrom(f_venue, f_since_ms)
        IN  /\ OrderedValues(f_candles) = expected
            /\ expected # <<>> => (f_pc = "returned" /\ f_out = <<expected>>)
            /\ expected = <<>> => f_pc = "raised"

\* A further request is made with a new since: the last timestamp of the
\* page just received plus one day, beyond the since of that page's request.
CursorAdvances ==
    /\ f_pc' = "loop" => f_since' # f_since
    /\ f_since' # f_since =>
          /\ f_since' = <<f_page'[1].batch[Len(f_page'[1].batch)].ts + DAY_MS>>
          /\ f_since # <<>> => f_since'[1] > f_since[1]

\* C30: against a venue of daily candles that honours since and limit and
\* returns each page in ascending order, fetch_candles returns exactly the
\* venue's candles with timestamp >= since_ms (all of them when since_ms is
\* None), each once, whatever their number (exact multiples of the limit
\* and venues with missing days included); the since of each further
\* request is the last timestamp of the previous page plus one day, and
\* strictly increases.
C30_CursorFetchExact == []CursorExact /\ [][CursorAdvances]_vars

\* A fetch from a given since_ms of a venue that misses a day between two
\* of its candles, both returned, where the candles returned are several
\* full pages.
C30_Witness ==
    /\ f_pc = "returned"
    /\ f_since_ms # <<>>
    /\ Len(f_out[1]) = 2 * f_limit
    /\ f_since # f_since_ms
    /\ \E i \in 1..(Len(f_out[1]) - 1) :
          f_out[1][i + 1].timestamp_ms > f_out[1][i].timestamp_ms + DAY_MS

----------------------------------------------------------------------------
(* Successive runs of main for one coin on one CCXT venue whose history     *)
(* grows.  The venue holds one daily candle per day and pair.  The candle   *)
(* of the day in progress is the last one of a pair and its close moves     *)
(* with the trades of the day; every earlier candle is final.  Between two  *)
(* runs the venue may trade, open the next day or list a further pair.  It  *)
(* honours since and answers within one page.                               *)

VenueName == "binance"

\* The two pairs of the asset trade at different prices.
PairPrices(quote) == IF quote = USDT THEN {200, 210} ELSE {100, 110}

VenueRow(day, price) == [ts |-> day * DAY_MS, close |-> <<"num", price>>]

RowSet(rows) == {rows[i] : i \in DOMAIN rows}

\* What the venue does for the coin in a run that asks from since_ms on.
VenueBehaviour(catalog, hist, since_ms) ==
    LET market == resolve_market(prepare(FetcherKind(VenueName), VenueName, catalog), BTC)
        page   == [err |-> FALSE,
                   batch |-> EarliestFirst(RowsFrom(RowSet(hist[market[1].quote]),
                                                    since_ms))]
    IN  [market |-> market,
         fetch  |-> IF market = <<>> THEN <<>>
                    ELSE ccxt_fetch_candles(VenueName, <<page>>)]

\* One run of main (lines 465-527) for the coin, with or without
\* --full-refresh, against the venue as it is now.
RunOf(file, full_refresh, catalog, hist) ==
    LET a        == [full_refresh |-> full_refresh, skip_existing |-> FALSE]
        payload  == IF full_refresh THEN <<>> ELSE load_existing_coin(file)
        existing == IF payload = <<>> THEN EmptyDict ELSE payload[1].exchanges
        since_ms == SinceOf(~full_refresh, GetExchange(existing, VenueName))
        env      == DictPut(EmptyDict, VenueName, VenueBehaviour(catalog, hist, since_ms))
        it       == MainIteration(file, a, <<VenueName>>, env)
    IN  [env |-> env, results |-> it.results, calls |-> it.calls, wrote |-> it.wrote,
         file |-> IF it.wrote THEN it.file ELSE file]

VenueInit ==
    /\ v_catalog = <<RawPair(BTC, USDC)>>
    /\ \E price \in PairPrices(USDC) :
          v_hist = DictPut(EmptyDict, USDC, <<VenueRow(1, price)>>)
    /\ v_file = AbsentFile
    /\ v_last = NoLast
    /\ v_seen = {}
    /\ v_pc = "venue"
    /\ HarvestOff /\ MergeOff /\ ResolveOff
    /\ FetchOff /\ RetryOff /\ MetricOff /\ InsightOff /\ WindowOff

\* A trade moves the close of the day in progress.
VenueTrades ==
    /\ v_pc \in {"venue", "ran"}
    /\ \E quote \in DOMAIN v_hist : \E price \in PairPrices(quote) :
          LET rows == v_hist[quote]
          IN  /\ rows[Len(rows)].close # <<"num", price>>
              /\ v_hist' = [v_hist EXCEPT ![quote] =
                               [rows EXCEPT ![Len(rows)] = VenueRow(Len(rows), price)]]
    /\ v_pc' = "venue"
    /\ UNCHANGED <<v_catalog, v_file, v_last, v_seen>>
    /\ UNCHANGED <<harvestVars, mergeVars, resolveVars, fetchVars, retryVars,
                   metricVars, insightVars, windowVars>>

\* The day ends: its candles are final, and every pair opens the next one.
VenueOpensDay ==
    /\ v_pc \in {"venue", "ran"}
    /\ \A quote \in DOMAIN v_hist : Len(v_hist[quote]) < MaxDay
    /\ \E open \in [DOMAIN v_hist -> UNION {PairPrices(q) : q \in DOMAIN v_hist}] :
          /\ \A quote \in DOMAIN v_hist : open[quote] \in PairPrices(quote)
          /\ v_hist' = [quote \in DOMAIN v_hist |->
                           Append(v_hist[quote],
                                  VenueRow(Len(v_hist[quote]) + 1, open[quote]))]
    /\ v_pc' = "venue"
    /\ UNCHANGED <<v_catalog, v_file, v_last, v_seen>>
    /\ UNCHANGED <<harvestVars, mergeVars, resolveVars, fetchVars, retryVars,
                   metricVars, insightVars, windowVars>>

\* The venue lists a second pair of the asset, with candles for the days
\* it holds.
VenueListsPair ==
    /\ v_pc \in {"venue", "ran"}
    /\ USDT \notin DOMAIN v_hist
    /\ v_catalog' = <<RawPair(BTC, USDC), RawPair(BTC, USDT)>>
    /\ \E prices \in [DOMAIN v_hist[USDC] -> PairPrices(USDT)] :
          v_hist' = DictPut(v_hist, USDT,
                            [d \in DOMAIN v_hist[USDC] |-> VenueRow(d, prices[d])])
    /\ v_pc' = "venue"
    /\ UNCHANGED <<v_file, v_last, v_seen>>
    /\ UNCHANGED <<harvestVars, mergeVars, resolveVars, fetchVars, retryVars,
                   metricVars, insightVars, windowVars>>

\* main runs to its end.
HarvestRun ==
    /\ v_pc \in {"venue", "ran"}
    /\ \E full_refresh \in BOOLEAN :
          LET run == RunOf(v_file, full_refresh, v_catalog, v_hist)
          IN  /\ v_file' = run.file
              /\ v_last' = [op |-> "harvest", full_refresh |-> full_refresh,
                            before |-> v_file, env |-> run.env,
                            results |-> run.results, calls |-> run.calls,
                            wrote |-> run.wrote]
              /\ v_seen' = v_seen
                    \cup {IF full_refresh THEN "full_refresh" ELSE "incremental"}
                    \cup (IF run.env[VenueName].fetch = <<>> THEN {"fetch_error"}
                          ELSE {})
    /\ v_pc' = "ran"
    /\ UNCHANGED <<v_catalog, v_hist>>
    /\ UNCHANGED <<harvestVars, mergeVars, resolveVars, fetchVars, retryVars,
                   metricVars, insightVars, windowVars>>

VenueNext == VenueTrades \/ VenueOpensDay \/ VenueListsPair \/ HarvestRun

SpecVenue == VenueInit /\ [][VenueNext]_vars

----------------------------------------------------------------------------
\* The series the file holds for the venue.
VenueSeries(file) ==
    IF VenueName \in DOMAIN file.exchanges THEN file.exchanges[VenueName].candles
    ELSE <<>>

\* The file a run with --full-refresh would write at this moment.
FullRefreshNow == RunOf(v_file, TRUE, v_catalog, v_hist).file

\* Every run so far was incremental and fetched without error, and the
\* venue lists the one pair it listed from the start.
OnlyIncrementalRuns == v_pc = "ran" /\ v_seen = {"incremental"} /\ Len(v_catalog) = 1

\* C31 as stated: for a venue whose history grows by appending newer
\* candles and whose resolved pair does not change, the series stored
\* after any sequence of successful incremental runs equals the series a
\* full-refresh run at the same moment would store, the value of the most
\* recent candle stored by an earlier run included.
C31_IncrementalEqualsFullRefresh ==
    OnlyIncrementalRuns => VenueSeries(v_file) = VenueSeries(FullRefreshNow)

----------------------------------------------------------------------------
\* The candle was fetched from the asset's pair in that quote: the pairs
\* trade at different prices, so the close tells the pair.
FetchedFrom(candle, quote) == candle.close[2] \in PairPrices(quote)

\* C32 as stated: in every record the harvester writes, the venue's
\* sub-record has count equal to the number of its candles, and every
\* candle of its series was fetched from the pair its market and quote
\* fields name, also after a run that resolves another pair for the asset
\* than earlier runs did.
C32_SubRecordConsistent ==
    (v_pc = "ran" /\ v_last.wrote) =>
        \A name \in DOMAIN v_file.exchanges :
            LET sub == v_file.exchanges[name]
            IN  /\ sub.count = Len(sub.candles)
                /\ sub.market = BTC \o Slash \o sub.quote
                /\ \A i \in DOMAIN sub.candles : FetchedFrom(sub.candles[i], sub.quote)

=============================================================================
